---- MODULE Spec2Model ----
(***************************************************************************)
(* A model of postprocess_lib.py: the G-code line codec and rewriter, the  *)
(* stream / temperature trackers, the block segmenter, temperature         *)
(* injection, the prime / wipe synthesizers and modify_blocks.             *)
(*                                                                         *)
(* Lines are strings and are taken apart character by character, as the    *)
(* regular expressions and str methods of the source do.  Numbers parsed   *)
(* from a line are records [isint, m, e] standing for m / 10^e (int() or   *)
(* float() of the token); a Python exception is the field / variable       *)
(* "error" leaving "none".                                                 *)
(***************************************************************************)
EXTENDS Integers, Sequences, FiniteSets, TLC

VARIABLES
    key_order,       \* the build's iteration order of an argument dict
    scn,             \* which family of input lines this run draws from
    fed,             \* the lines handed to process_line so far
    Block_defaults,  \* the shared default dicts of Block.__init__
    bp,              \* the BlockProcessor instance
    tm,              \* the TempMinimizeProcessor instance
    inj,             \* the last Block.add_temperatures call: arguments, result
    pr,              \* the PrimeRetraceProcessor instance
    mb,              \* modify_blocks: its arguments, its locals, where it is
    rw               \* a rewrite / rewrite_move call: its arguments, its result

vars == <<key_order, scn, fed, Block_defaults, bp, tm, inj, pr, mb, rw>>

\* ------------------------------------------------------------------ bounds

MaxLines == 4
MaxCalls == 2
MaxWipeLines == 7
MaxBlocks == 4

\* ------------------------------------------------------------- characters

Ch(s, i) == SubSeq(s, i, i)

Digits == {"0", "1", "2", "3", "4", "5", "6", "7", "8", "9"}

DigitVal(c) ==
    CASE c = "0" -> 0 [] c = "1" -> 1 [] c = "2" -> 2 [] c = "3" -> 3
      [] c = "4" -> 4 [] c = "5" -> 5 [] c = "6" -> 6 [] c = "7" -> 7
      [] c = "8" -> 8 [] c = "9" -> 9

DigitChar(d) ==
    CASE d = 0 -> "0" [] d = 1 -> "1" [] d = 2 -> "2" [] d = 3 -> "3"
      [] d = 4 -> "4" [] d = 5 -> "5" [] d = 6 -> "6" [] d = 7 -> "7"
      [] d = 8 -> "8" [] d = 9 -> "9"

SetMin(S) == CHOOSE x \in S : \A y \in S : x <= y
SetMax(S) == CHOOSE x \in S : \A y \in S : x >= y

AllDigits(s) == \A i \in 1..Len(s) : Ch(s, i) \in Digits

RECURSIVE DigitsValue(_)
DigitsValue(s) ==
    IF Len(s) = 0 THEN 0
    ELSE 10 * DigitsValue(SubSeq(s, 1, Len(s) - 1)) + DigitVal(Ch(s, Len(s)))

RECURSIVE Pow10(_)
Pow10(n) == IF n = 0 THEN 1 ELSE 10 * Pow10(n - 1)

RECURSIVE NatToStr(_)
NatToStr(n) ==
    IF n < 10 THEN DigitChar(n) ELSE NatToStr(n \div 10) \o DigitChar(n % 10)

IntToStr(n) == IF n < 0 THEN "-" \o NatToStr(0 - n) ELSE NatToStr(n)

RECURSIVE PadFrac(_, _)
PadFrac(n, width) ==
    IF width = 0 THEN "" ELSE PadFrac(n \div 10, width - 1) \o DigitChar(n % 10)

\* str.find(c): the 1-based position of the first c, 0 when there is none
Find(s, c) ==
    LET at == {i \in 1..Len(s) : Ch(s, i) = c}
    IN  IF at = {} THEN 0 ELSE SetMin(at)

Contains(s, c) == Find(s, c) # 0

StartsWith(s, p) == Len(s) >= Len(p) /\ SubSeq(s, 1, Len(p)) = p

\* str.strip()
Strip(s) ==
    LET at == {i \in 1..Len(s) : Ch(s, i) # " "}
    IN  IF at = {} THEN "" ELSE SubSeq(s, SetMin(at), SetMax(at))

\* str.split(' ')
RECURSIVE Split(_)
Split(s) ==
    LET p == Find(s, " ")
    IN  IF p = 0 THEN <<s>>
        ELSE <<SubSeq(s, 1, p - 1)>> \o Split(SubSeq(s, p + 1, Len(s)))

\* ---------------------------------------------------------------- numbers

RECURSIVE Normal(_)
Normal(n) ==
    IF n.e > 0 /\ n.m % 10 = 0
    THEN Normal([n EXCEPT !.m = n.m \div 10, !.e = n.e - 1])
    ELSE n

IntNum(i) == [isint |-> TRUE, m |-> i, e |-> 0, wide |-> ""]

\* ==: 10 == 10.0 in Python
NumEq(a, b) ==
    Normal(a).m = Normal(b).m /\ Normal(a).e = Normal(b).e /\ a.wide = b.wide

NumMul(a, k) == [a EXCEPT !.m = a.m * k]

\* int(s): an optional sign and one or more digits
IntOk(s) ==
    LET body == IF Len(s) > 0 /\ Ch(s, 1) \in {"-", "+"}
                THEN SubSeq(s, 2, Len(s)) ELSE s
    IN  Len(body) > 0 /\ AllDigits(body)

\* float(s): surrounding blanks dropped, an optional sign, digits with at
\* most one point and at least one digit (no exponent forms are modelled)
Unsigned(t) ==
    IF Len(t) > 0 /\ Ch(t, 1) \in {"-", "+"} THEN SubSeq(t, 2, Len(t)) ELSE t

FloatBody(s) == Unsigned(Strip(s))

\* the digits before and after the point of an unsigned literal
IntPart(b) == IF Find(b, ".") = 0 THEN b ELSE SubSeq(b, 1, Find(b, ".") - 1)

FracPart(b) == IF Find(b, ".") = 0 THEN "" ELSE SubSeq(b, Find(b, ".") + 1, Len(b))

FloatDigitsOk(ip, fp) == AllDigits(ip) /\ AllDigits(fp) /\ Len(ip) + Len(fp) > 0

FloatOk(s) == FloatDigitsOk(IntPart(FloatBody(s)), FracPart(FloatBody(s)))

SignOf(t) == IF Len(t) > 0 /\ Ch(t, 1) = "-" THEN 0 - 1 ELSE 1

Sign(s) == SignOf(Strip(s))

FloatValue(sign, ip, fp) ==
    Normal([isint |-> FALSE,
            m |-> sign * (DigitsValue(ip) * Pow10(Len(fp)) + DigitsValue(fp)),
            e |-> Len(fp), wide |-> ""])

RECURSIVE StripZerosLeft(_)
StripZerosLeft(s) ==
    IF Len(s) > 0 /\ Ch(s, 1) = "0" THEN StripZerosLeft(SubSeq(s, 2, Len(s))) ELSE s

RECURSIVE StripZerosRight(_)
StripZerosRight(s) ==
    IF Len(s) > 0 /\ Ch(s, Len(s)) = "0"
    THEN StripZerosRight(SubSeq(s, 1, Len(s) - 1)) ELSE s

\* A float with more than 9 significant decimal digits does not fit m; it is
\* kept as its decimal expansion in "wide" (sign, integer digits, point,
\* fraction digits, no redundant zeros).  Literals of up to 15 significant
\* digits are distinct doubles, so equal expansions are equal floats.
WideFloat(sign, ip, fp) ==
    [isint |-> FALSE, m |-> 0, e |-> 0,
     wide |-> (IF sign < 0 THEN "-" ELSE "") \o (IF ip = "" THEN "0" ELSE ip)
                  \o "." \o (IF fp = "" THEN "0" ELSE fp)]

FloatOf(sign, ip, fp) ==
    IF Len(ip) + Len(fp) > 9 THEN WideFloat(sign, ip, fp)
    ELSE FloatValue(sign, ip, fp)

float(s) ==
    FloatOf(Sign(s), StripZerosLeft(IntPart(FloatBody(s))),
            StripZerosRight(FracPart(FloatBody(s))))

int(s) == IntNum(Sign(s) * DigitsValue(FloatBody(s)))

\* str(float) of Python 2 is "%.12g": the first 12 significant digits, the
\* last one rounded on the digit after it (values from 0.0001 up to 10^12,
\* which print without an exponent).
RECURSIVE LeadingZeros(_)
LeadingZeros(d) ==
    IF Len(d) > 0 /\ Ch(d, 1) = "0" THEN 1 + LeadingZeros(SubSeq(d, 2, Len(d))) ELSE 0

RECURSIVE IncDigits(_)
IncDigits(d) ==
    IF Len(d) = 0 THEN "1"
    ELSE IF Ch(d, Len(d)) = "9" THEN IncDigits(SubSeq(d, 1, Len(d) - 1)) \o "0"
    ELSE SubSeq(d, 1, Len(d) - 1) \o DigitChar(DigitVal(Ch(d, Len(d))) + 1)

RoundDigits(d, keep) ==
    IF Len(d) <= keep THEN d
    ELSE IF DigitVal(Ch(d, keep + 1)) >= 5 THEN IncDigits(SubSeq(d, 1, keep))
    ELSE SubSeq(d, 1, keep)

\* the digits r with the point after the first pp of them
PointAfter(r, pp) ==
    SubSeq(r, 1, pp) \o "."
        \o (IF StripZerosRight(SubSeq(r, pp + 1, Len(r))) = "" THEN "0"
            ELSE StripZerosRight(SubSeq(r, pp + 1, Len(r))))

\* rounding up a run of nines makes the integer part one digit longer
Str12Digits(ip, d, r, keep) ==
    PointAfter(r, IF Len(d) > keep /\ Len(r) > keep THEN Len(ip) + 1 ELSE Len(ip))

Str12Rounded(ip, d, keep) == Str12Digits(ip, d, RoundDigits(d, keep), keep)

Str12Unsigned(ip, fp) ==
    Str12Rounded(ip, ip \o fp, LeadingZeros(ip \o fp) + 12)

Str12(w) ==
    (IF Ch(w, 1) = "-" THEN "-" ELSE "")
        \o Str12Unsigned(IntPart(Unsigned(w)), FracPart(Unsigned(w)))

\* "%s" of a number: str(int) or str(float)
NumToStr(n) ==
    IF n.isint THEN IntToStr(n.m)
    ELSE IF n.wide # "" THEN Str12(n.wide)
    ELSE LET a == IF n.m < 0 THEN 0 - n.m ELSE n.m
             sg == IF n.m < 0 THEN "-" ELSE ""
         IN  IF n.e = 0 THEN sg \o NatToStr(a) \o ".0"
             ELSE sg \o NatToStr(a \div Pow10(n.e)) \o "."
                     \o PadFrac(a % Pow10(n.e), n.e)

\* ------------------------------------------------------------------ dicts

EmptyDict == [k \in {} |-> 0]

DictSet(d, k, v) == [x \in (DOMAIN d) \cup {k} |-> IF x = k THEN v ELSE d[x]]

DictPop(d, k) == [x \in (DOMAIN d) \ {k} |-> d[x]]

\* ------------------------------------------------------------ parse_gcode

\* one "X12.5" token: key arg[0], value int(arg[1:]) else float(arg[1:])
ArgOk(arg) ==
    Len(arg) > 0 /\ (IntOk(SubSeq(arg, 2, Len(arg))) \/ FloatOk(SubSeq(arg, 2, Len(arg))))

ArgValue(arg) ==
    LET v == SubSeq(arg, 2, Len(arg))
    IN  IF IntOk(v) THEN int(v) ELSE float(v)

RECURSIVE ArgsDict(_, _)
ArgsDict(args, d) ==
    IF Len(args) = 0 THEN d
    ELSE ArgsDict(Tail(args), DictSet(d, Ch(Head(args), 1), ArgValue(Head(args))))

Uncomment(line) ==
    IF Contains(line, ";") THEN SubSeq(line, 1, Find(line, ";") - 1) ELSE line

\* (op, args_dict); op "" stands for None; ok FALSE stands for the ValueError
\* (IndexError for an empty token) that leaves parse_gcode
ParseParts(parts) ==
    IF \E i \in 2..Len(parts) : ~ArgOk(parts[i])
    THEN [ok |-> FALSE, op |-> parts[1], args |-> EmptyDict]
    ELSE [ok |-> TRUE, op |-> parts[1], args |-> ArgsDict(Tail(parts), EmptyDict)]

ParseStripped(l) ==
    IF l = "" THEN [ok |-> TRUE, op |-> "", args |-> EmptyDict]
    ELSE ParseParts(Split(l))

parse_gcode(line) == ParseStripped(Strip(Uncomment(line)))

\* ------------------------------------------------------------- make_gcode

\* The letters a parameter key can be in the lines this model feeds, in the
\* two iteration orders the model lets an argument dict have.
KeyOrders ==
    {<<"E", "F", "S", "T", "X", "Y", "Z">>, <<"Z", "Y", "X", "T", "S", "F", "E">>}

RECURSIVE JoinArgs(_, _, _)
JoinArgs(order, i, args_dict) ==
    IF i > Len(order) THEN ""
    ELSE (IF order[i] \in DOMAIN args_dict
          THEN " " \o order[i] \o NumToStr(args_dict[order[i]])
          ELSE "") \o JoinArgs(order, i + 1, args_dict)

make_gcode(order, op, args_dict) == op \o JoinArgs(order, 1, args_dict)

\* ----------------------------------------------------------------- rewrite

\* move_regex = '^G[01]$'; the tests also pass 'G[01]' (any op that starts
\* with G0 or G1) and 'M10[49]' (any op that starts with M104 or M109)
move_regex == "^G[01]$"

OpMatch(op_regex, op) ==
    CASE op_regex = "^G[01]$" -> op \in {"G0", "G1"}
      [] op_regex = "G[01]" -> StartsWith(op, "G0") \/ StartsWith(op, "G1")
      [] op_regex = "M10[49]" -> StartsWith(op, "M104") \/ StartsWith(op, "M109")

Override(args_dict, override) ==
    [k \in DOMAIN args_dict |->
        IF k \in DOMAIN override THEN override[k] ELSE args_dict[k]]

Force(args_dict, force) ==
    [k \in (DOMAIN args_dict) \cup (DOMAIN force) |->
        IF k \in DOMAIN force THEN force[k] ELSE args_dict[k]]

Delete(args_dict, delete) == [k \in (DOMAIN args_dict) \ delete |-> args_dict[k]]

\* as rewrite, a line that is not edited serialized again from its parts
rewrite_reserializes(order, gcode_string, op_regex, override, force, delete) ==
    LET p == parse_gcode(gcode_string)
    IN  IF p.op = "" THEN gcode_string
        ELSE IF ~OpMatch(op_regex, p.op) THEN make_gcode(order, p.op, p.args)
        ELSE make_gcode(order, p.op,
                        Delete(Force(Override(p.args, override), force), delete))

\* rewrite of a line parse_gcode accepts (callers look at parse_gcode(..).ok)
rewrite(order, gcode_string, op_regex, override, force, delete) ==
    LET p == parse_gcode(gcode_string)
    IN  IF p.op = "" THEN gcode_string
        ELSE IF ~OpMatch(op_regex, p.op) THEN gcode_string
        ELSE make_gcode(order, p.op,
                        Delete(Force(Override(p.args, override), force), delete))

\* z_force: [some |-> FALSE] is None
None == [some |-> FALSE, val |-> IntNum(0)]
Some(v) == [some |-> TRUE, val |-> v]

rewrite_move(order, line, feed_override, z_force) ==
    IF ~z_force.some
    THEN rewrite(order, line, move_regex, [k \in {"F"} |-> feed_override],
                 EmptyDict, {"E", "Z"})
    ELSE rewrite(order, line, move_regex, [k \in {"F"} |-> feed_override],
                 [k \in {"Z"} |-> z_force.val], {"E"})

\* ---------------------------------------------------------------- Processor

S_INIT == 0
S_POST_INIT == 1
S_PRIME_BLOCK == 2
S_PRIME_WIPE_BLOCK == 3
S_START_EXTRUDER == 4
S_END_EXTRUDER == 5
S_PART == 6
S_END == 7

\* tool_regex = '^T(?P<tool>[0-9]*)$'
tool_regex(line) ==
    Len(line) >= 1 /\ Ch(line, 1) = "T" /\ AllDigits(SubSeq(line, 2, Len(line)))

\* move_z_regex = '^G[01] [^Z]*Z(?P<z_coordinate>[0-9](.[0-9]*)?).*$':
\* the Z must be the first one of the line and a digit must follow it
move_z_regex(line) ==
    /\ Len(line) >= 3
    /\ Ch(line, 1) = "G" /\ Ch(line, 2) \in {"0", "1"} /\ Ch(line, 3) = " "
    /\ LET z == Find(SubSeq(line, 4, Len(line)), "Z")
       IN  z # 0 /\ z + 3 < Len(line) /\ Ch(line, z + 4) \in Digits

\* the group z_coordinate: one digit, then (greedily) any one character and
\* the run of digits after it
ZPos(line) == Find(SubSeq(line, 4, Len(line)), "Z") + 4

DigitRun(line, from) ==
    {j \in from..Len(line) : \A i \in from..j : Ch(line, i) \in Digits}

ZGroupEnd(line, d) ==
    IF d = Len(line) THEN d
    ELSE IF DigitRun(line, d + 2) = {} THEN d + 1 ELSE SetMax(DigitRun(line, d + 2))

z_coordinate(line) == SubSeq(line, ZPos(line), ZGroupEnd(line, ZPos(line)))

tool_change_fails(line) == tool_regex(line) /\ Len(line) = 1

process_tool_change(p, line) ==
    IF ~tool_regex(line) THEN p
    ELSE [p EXCEPT !.active_tool = DigitsValue(SubSeq(line, 2, Len(line)))]

z_move_fails(line) == move_z_regex(line) /\ ~FloatOk(z_coordinate(line))

process_z_move(p, line) ==
    IF ~move_z_regex(line) THEN p
    ELSE [p EXCEPT !.current_z = float(z_coordinate(line))]

\* ------------------------------------------------------------ TempProcessor

IsTempOp(op) == op = "M104" \/ op = "M109"

\* the tool a temperature line addresses, and its target
Extruder(p, args) == IF "T" \in DOMAIN args THEN args["T"].m ELSE p.active_tool

temp_change_fails(line) ==
    LET g == parse_gcode(line)
    IN  \/ ~g.ok
        \/ g.op # "" /\ IsTempOp(g.op) /\ "S" \notin DOMAIN g.args

update_idle_temps(idle_temps, extruder, temperature) ==
    IF extruder \notin DOMAIN idle_temps
    THEN DictSet(idle_temps, extruder, temperature)
    ELSE IF idle_temps[extruder] > temperature
         THEN DictSet(idle_temps, extruder, temperature)
         ELSE idle_temps

update_printing_temps(printing_temps, extruder, temperature) ==
    IF extruder \notin DOMAIN printing_temps
    THEN DictSet(printing_temps, extruder, temperature)
    ELSE IF printing_temps[extruder] < temperature
         THEN DictSet(printing_temps, extruder, temperature)
         ELSE printing_temps

\* as process_temp_change, a zero target not kept out of the idle / printing maps
process_temp_change_keeps_zero(p, line) ==
    LET g == parse_gcode(line)
        extruder == Extruder(p, g.args)
        temperature == g.args["S"].m
        q == [p EXCEPT !.target_temps = DictSet(@, extruder, temperature),
                       !.reached_target = DictSet(@, extruder, g.op = "M109")]
    IN  IF g.op = "" THEN p
        ELSE IF ~IsTempOp(g.op) THEN p
        ELSE [q EXCEPT
                !.idle_temps = update_idle_temps(@, extruder, temperature),
                !.printing_temps = update_printing_temps(@, extruder, temperature)]

\* as process_temp_change, a zero target leaving the tracker as it was
process_temp_change_skips_zero(p, line) ==
    LET g == parse_gcode(line)
        extruder == Extruder(p, g.args)
        temperature == g.args["S"].m
        q == [p EXCEPT !.target_temps = DictSet(@, extruder, temperature),
                       !.reached_target = DictSet(@, extruder, g.op = "M109")]
    IN  IF g.op = "" THEN p
        ELSE IF ~IsTempOp(g.op) THEN p
        ELSE IF temperature = 0 THEN p
        ELSE [q EXCEPT
                !.idle_temps = update_idle_temps(@, extruder, temperature),
                !.printing_temps = update_printing_temps(@, extruder, temperature)]

process_temp_change(p, line) ==
    LET g == parse_gcode(line)
        extruder == Extruder(p, g.args)
        temperature == g.args["S"].m
        q == [p EXCEPT !.target_temps = DictSet(@, extruder, temperature),
                       !.reached_target = DictSet(@, extruder, g.op = "M109")]
    IN  IF g.op = "" THEN p
        ELSE IF ~IsTempOp(g.op) THEN p
        ELSE IF temperature = 0 THEN q
        ELSE [q EXCEPT
                !.idle_temps = update_idle_temps(@, extruder, temperature),
                !.printing_temps = update_printing_temps(@, extruder, temperature)]

\* ---------------------------------------------------- TempMinimizeProcessor

\* as process_temp_line, an M109 dropped without looking at reached_target
process_temp_line_ignores_reached(p, line) ==
    LET g == parse_gcode(line)
        extruder == Extruder(p, g.args)
    IN  IF ~IsTempOp(g.op) THEN [p EXCEPT !.lines = Append(@, line)]
        ELSE IF extruder \notin DOMAIN p.target_temps
             THEN [p EXCEPT !.lines = Append(@, line)]
        ELSE IF p.target_temps[extruder] = g.args["S"].m THEN p
        ELSE [p EXCEPT !.lines = Append(@, line)]

\* as process_temp_line, the first command for a tool dropped
process_temp_line_drops_first(p, line) ==
    LET g == parse_gcode(line)
        extruder == Extruder(p, g.args)
    IN  IF ~IsTempOp(g.op) THEN [p EXCEPT !.lines = Append(@, line)]
        ELSE IF extruder \notin DOMAIN p.target_temps THEN p
        ELSE IF p.target_temps[extruder] = g.args["S"].m
                /\ (g.op = "M104" \/ p.reached_target[extruder])
             THEN p
        ELSE [p EXCEPT !.lines = Append(@, line)]

process_temp_line(p, line) ==
    LET g == parse_gcode(line)
        extruder == Extruder(p, g.args)
    IN  IF ~IsTempOp(g.op) THEN [p EXCEPT !.lines = Append(@, line)]
        ELSE IF extruder \notin DOMAIN p.target_temps
             THEN [p EXCEPT !.lines = Append(@, line)]
        ELSE IF p.target_temps[extruder] = g.args["S"].m
                /\ (g.op = "M104" \/ p.reached_target[extruder])
             THEN p
        ELSE [p EXCEPT !.lines = Append(@, line)]

TempMinimizeProcessor_init ==
    [active_tool |-> 0, current_z |-> IntNum(0),
     idle_temps |-> EmptyDict, printing_temps |-> EmptyDict,
     target_temps |-> EmptyDict, reached_target |-> EmptyDict,
     lines |-> <<>>, error |-> "none"]

\* Processor.process_line with the line_processors of a TempMinimizeProcessor:
\* process_temp_line, process_tool_change, process_z_move, process_temp_change
TempMinimizeProcessor_process_line(p, line) ==
    LET l == Strip(line)
    IN  IF tool_change_fails(l) \/ z_move_fails(l) \/ temp_change_fails(l)
        THEN [p EXCEPT !.error = "ValueError"]
        ELSE process_temp_change(
                 process_z_move(
                     process_tool_change(process_temp_line(p, l), l), l), l)

get_lines(p) == p.lines

\* Processor.process_lines(lines) of a TempMinimizeProcessor
RECURSIVE TempMinimizeProcessor_process_lines(_, _, _)
TempMinimizeProcessor_process_lines(p, lines, i) ==
    IF i > Len(lines) \/ p.error # "none" THEN p
    ELSE TempMinimizeProcessor_process_lines(
             TempMinimizeProcessor_process_line(p, lines[i]), lines, i + 1)

\* -------------------------------------------------------------------- Block

\* Block.__init__.  own_maps FALSE: finish_target_temps / finish_reached_target
\* were not passed, so the block holds the two default dict objects that every
\* such block shares (Block_defaults); its own two fields are then unused.
Block(lines, state, start_z, finish_z, active_tool) ==
    [lines |-> lines, state |-> state, start_z |-> start_z,
     finish_z |-> finish_z, active_tool |-> active_tool,
     own_maps |-> FALSE,
     finish_target_temps |-> EmptyDict, finish_reached_target |-> EmptyDict]

BlockWithMaps(lines, state, start_z, finish_z, active_tool, target, reached) ==
    [lines |-> lines, state |-> state, start_z |-> start_z,
     finish_z |-> finish_z, active_tool |-> active_tool,
     own_maps |-> TRUE,
     finish_target_temps |-> target, finish_reached_target |-> reached]

\* block.finish_target_temps / block.finish_reached_target, read
TargetTemps(dflt, b) ==
    IF b.own_maps THEN b.finish_target_temps ELSE dflt.finish_target_temps

ReachedTarget(dflt, b) ==
    IF b.own_maps THEN b.finish_reached_target ELSE dflt.finish_reached_target

\* --------------------------------------------------- Block.add_temperatures

TempCommand(wait, tool, temperature) ==
    "M10" \o (IF wait THEN "9" ELSE "4") \o " T" \o IntToStr(tool)
          \o " S" \o IntToStr(temperature)

\* The loop's state: new_lines, extruding, the block's two finish maps (the
\* shared defaults when the block holds those) and the exception, if any.
\* One pass of the loop body, for one line:

\* as AddTempStep, extruding never set
AddTempStep_every_E(st, line, tool, wait, printing_temps, target_temps, reached_target) ==
    LET g == parse_gcode(line)
        stale == tool \notin DOMAIN st.target
                 \/ st.target[tool] # printing_temps[tool]
        ramped == [st EXCEPT
                     !.target = IF stale THEN DictSet(@, tool, printing_temps[tool]) ELSE @,
                     !.reached = IF stale THEN DictSet(@, tool, wait) ELSE @]
        hot == /\ tool \in DOMAIN target_temps
               /\ target_temps[tool] = printing_temps[tool]
               /\ reached_target[tool]
    IN  IF st.error # "none" THEN st
        ELSE IF ~g.ok THEN [st EXCEPT !.error = "ValueError"]
        ELSE IF "E" \in DOMAIN g.args /\ ~st.extruding
        THEN IF tool \notin DOMAIN printing_temps
             THEN [st EXCEPT !.error = "KeyError"]
             ELSE IF /\ tool \in DOMAIN target_temps
                     /\ target_temps[tool] = printing_temps[tool]
                     /\ tool \notin DOMAIN reached_target
             THEN [ramped EXCEPT !.error = "KeyError"]
             ELSE [ramped EXCEPT
                     !.new_lines =
                         IF hot THEN Append(@, line)
                         ELSE @ \o <<TempCommand(wait, tool, printing_temps[tool]), line>>]
        ELSE [st EXCEPT !.new_lines = Append(@, line)]

\* as AddTempStep, the command left out when the block's own finish target
\* (not the prior block's, reached) is the printing temperature
AddTempStep_own_maps(st, line, tool, wait, printing_temps, target_temps, reached_target) ==
    LET g == parse_gcode(line)
        stale == tool \notin DOMAIN st.target
                 \/ st.target[tool] # printing_temps[tool]
        ramped == [st EXCEPT
                     !.target = IF stale THEN DictSet(@, tool, printing_temps[tool]) ELSE @,
                     !.reached = IF stale THEN DictSet(@, tool, wait) ELSE @]
    IN  IF st.error # "none" THEN st
        ELSE IF ~g.ok THEN [st EXCEPT !.error = "ValueError"]
        ELSE IF "E" \in DOMAIN g.args /\ ~st.extruding
        THEN IF tool \notin DOMAIN printing_temps
             THEN [st EXCEPT !.error = "KeyError"]
             ELSE IF /\ tool \in DOMAIN target_temps
                     /\ target_temps[tool] = printing_temps[tool]
                     /\ tool \notin DOMAIN reached_target
             THEN [ramped EXCEPT !.error = "KeyError"]
             ELSE [ramped EXCEPT
                     !.new_lines =
                         IF ~stale THEN Append(@, line)
                         ELSE @ \o <<TempCommand(wait, tool, printing_temps[tool]), line>>,
                     !.extruding = TRUE]
        ELSE [st EXCEPT !.new_lines = Append(@, line)]

AddTempStep(st, line, tool, wait, printing_temps, target_temps, reached_target) ==
    LET g == parse_gcode(line)
        stale == tool \notin DOMAIN st.target
                 \/ st.target[tool] # printing_temps[tool]
        ramped == [st EXCEPT
                     !.target = IF stale THEN DictSet(@, tool, printing_temps[tool]) ELSE @,
                     !.reached = IF stale THEN DictSet(@, tool, wait) ELSE @]
        hot == /\ tool \in DOMAIN target_temps
               /\ target_temps[tool] = printing_temps[tool]
               /\ reached_target[tool]
    IN  IF st.error # "none" THEN st
        ELSE IF ~g.ok THEN [st EXCEPT !.error = "ValueError"]
        ELSE IF "E" \in DOMAIN g.args /\ ~st.extruding
        THEN IF tool \notin DOMAIN printing_temps
             THEN [st EXCEPT !.error = "KeyError"]
             ELSE IF /\ tool \in DOMAIN target_temps
                     /\ target_temps[tool] = printing_temps[tool]
                     /\ tool \notin DOMAIN reached_target
             THEN [ramped EXCEPT !.error = "KeyError"]
             ELSE [ramped EXCEPT
                     !.new_lines =
                         IF hot THEN Append(@, line)
                         ELSE @ \o <<TempCommand(wait, tool, printing_temps[tool]), line>>,
                     !.extruding = TRUE]
        ELSE [st EXCEPT !.new_lines = Append(@, line)]

RECURSIVE AddTempLoop(_, _, _, _, _, _, _, _)
AddTempLoop(st, lines, i, tool, wait, printing_temps, target_temps, reached_target) ==
    IF i > Len(lines) THEN st
    ELSE AddTempLoop(
             AddTempStep(st, lines[i], tool, wait, printing_temps,
                         target_temps, reached_target),
             lines, i + 1, tool, wait, printing_temps, target_temps, reached_target)

\* block.add_temperatures(wait, idle_temps, printing_temps, target_temps,
\* reached_target) (idle_temps is not read): the block and the shared default
\* dicts afterwards, and the exception that left the call, if any
AddTempResult(dflt, b, st) ==
    [error |-> st.error,
     block |-> IF b.own_maps
               THEN [b EXCEPT !.lines = IF st.error = "none" THEN st.new_lines ELSE @,
                              !.finish_target_temps = st.target,
                              !.finish_reached_target = st.reached]
               ELSE [b EXCEPT !.lines = IF st.error = "none" THEN st.new_lines ELSE @],
     defaults |-> IF b.own_maps THEN dflt
                  ELSE [finish_target_temps |-> st.target,
                        finish_reached_target |-> st.reached]]

add_temperatures(dflt, b, wait, printing_temps, target_temps, reached_target) ==
    AddTempResult(dflt, b,
        AddTempLoop([new_lines |-> <<>>, extruding |-> FALSE,
                     target |-> TargetTemps(dflt, b),
                     reached |-> ReachedTarget(dflt, b), error |-> "none"],
                    b.lines, 1, b.active_tool, wait, printing_temps,
                    target_temps, reached_target))

\* ----------------------------------------------------------- BlockProcessor

\* raw_re_state_table, each pattern as re.match applies it (at the start of
\* the line, anything may follow)
StateTable ==
    << [re |-> {";END-INIT"}, state |-> S_POST_INIT],
       [re |-> {";TYPE:WALL", ";TYPE:SKIN", ";TYPE:FILL"}, state |-> S_PART],
       [re |-> {";TYPE:PRIME-TOWER"}, state |-> S_PRIME_BLOCK],
       [re |-> {"; EXTRUDER START HOME"}, state |-> S_START_EXTRUDER],
       [re |-> {"; EXTRUDER END HOME"}, state |-> S_END_EXTRUDER] >>

Matches(entry, line) == \E prefix \in entry.re : StartsWith(line, prefix)

\* as SealAndOpen, the new block started on the sealed block's lines
SealAndOpen_keeps_lines(p, state) ==
    [p EXCEPT
       !.blocks = Append(@,
           [p.current_block EXCEPT !.own_maps = TRUE,
                                   !.finish_target_temps = p.target_temps,
                                   !.finish_reached_target = p.reached_target]),
       !.current_block = Block(p.current_block.lines, state, p.current_z,
                               IntNum(0), p.active_tool)]

\* as SealAndOpen, the sealed block left with the maps it was constructed with
SealAndOpen_no_snapshot(p, state) ==
    [p EXCEPT
       !.blocks = Append(@, [p.current_block EXCEPT !.own_maps = TRUE]),
       !.current_block = Block(<<>>, state, p.current_z, IntNum(0), p.active_tool)]

\* the body of the "if re.match(line)" of process_blocks
SealAndOpen(p, state) ==
    [p EXCEPT
       !.blocks = Append(@,
           [p.current_block EXCEPT !.own_maps = TRUE,
                                   !.finish_target_temps = p.target_temps,
                                   !.finish_reached_target = p.reached_target]),
       !.current_block = Block(<<>>, state, p.current_z, IntNum(0), p.active_tool)]

RECURSIVE MatchTable(_, _, _)
MatchTable(p, line, i) ==
    IF i > Len(StateTable) THEN p
    ELSE MatchTable(IF Matches(StateTable[i], line)
                    THEN SealAndOpen(p, StateTable[i].state) ELSE p,
                    line, i + 1)

\* as process_blocks, the line appended to the open block before the table is
\* consulted
process_blocks_appends_first(p, line) ==
    MatchTable([p EXCEPT !.current_block.finish_z = p.current_z,
                         !.current_block.lines = Append(@, line)], line, 1)

process_blocks(p, line) ==
    LET q == MatchTable(p, line, 1)
    IN  [q EXCEPT !.current_block.finish_z = q.current_z,
                  !.current_block.lines = Append(@, line)]

get_blocks(p) == Append(p.blocks, p.current_block)

BlockProcessor_init ==
    [active_tool |-> 0, current_z |-> IntNum(0),
     idle_temps |-> EmptyDict, printing_temps |-> EmptyDict,
     target_temps |-> EmptyDict, reached_target |-> EmptyDict,
     blocks |-> <<>>,
     current_block |-> Block(<<>>, S_INIT, IntNum(0), IntNum(0), 0),
     error |-> "none"]

\* Processor.process_line with the line_processors of a BlockProcessor:
\* process_tool_change, process_z_move, process_temp_change, process_blocks
BlockProcessor_line_fails(line) ==
    LET l == Strip(line)
    IN  tool_change_fails(l) \/ z_move_fails(l) \/ temp_change_fails(l)

BlockProcessor_process_line(p, line) ==
    LET l == Strip(line)
    IN  IF BlockProcessor_line_fails(line) THEN [p EXCEPT !.error = "ValueError"]
        ELSE process_blocks(
                 process_temp_change(
                     process_z_move(process_tool_change(p, l), l), l), l)

\* ---------------------------------------------------- PrimeRetraceProcessor

\* the keys of a tool -> temperature dict in the order .items() yields them
\* (small int keys: ascending)
RECURSIVE SortedKeys(_)
SortedKeys(S) ==
    IF S = {} THEN <<>> ELSE <<SetMin(S)>> \o SortedKeys(S \ {SetMin(S)})

IdleHeader(idle_temps) ==
    LET ks == SortedKeys(DOMAIN idle_temps)
    IN  [i \in 1..Len(ks) |->
            "M104 T" \o IntToStr(ks[i]) \o " S" \o IntToStr(idle_temps[ks[i]])]

\* PrimeRetraceProcessor(idle_temps, feed_override, active_tool, z_override);
\* idle_temps and z_override may be None
PrimeRetraceProcessor_init(idle_temps, feed_override, active_tool, z_override) ==
    [active_tool |-> 0, current_z |-> IntNum(0),
     feed_override |-> feed_override, z_override |-> z_override,
     idle_temps |-> idle_temps,
     lines |-> <<";WIPE-PRIME-TOWER">>
               \o (IF idle_temps.some THEN IdleHeader(idle_temps.val) ELSE <<>>),
     active_idle_line |->
         IF idle_temps.some /\ active_tool \in DOMAIN idle_temps.val
         THEN "M109 T" \o IntToStr(active_tool) \o " S"
                  \o IntToStr(idle_temps.val[active_tool])
         ELSE "",
     seen_move_line |-> FALSE,
     error |-> IF idle_temps.some /\ active_tool \notin DOMAIN idle_temps.val
               THEN "KeyError" ELSE "none"]

NoDict == [some |-> FALSE, val |-> EmptyDict]
SomeDict(d) == [some |-> TRUE, val |-> d]

process_prime_line(order, p, line) ==
    IF ~p.seen_move_line
    THEN IF StartsWith(line, "G") /\ (Contains(line, "X") \/ Contains(line, "Y"))
         THEN [p EXCEPT
                 !.seen_move_line = TRUE,
                 !.lines = @ \o
                     << rewrite_move(order, line, NumMul(p.feed_override, 15), None),
                        rewrite_move(order, line, p.feed_override, p.z_override) >>]
         ELSE [p EXCEPT
                 !.lines = Append(@,
                     rewrite_move(order, line, NumMul(p.feed_override, 15), None))]
    ELSE [p EXCEPT
            !.lines = Append(@, rewrite_move(order, line, p.feed_override, None))]

\* Processor.process_line with the line_processors of a PrimeRetraceProcessor:
\* process_tool_change, process_z_move, process_prime_line
PrimeRetraceProcessor_process_line(order, p, line) ==
    LET l == Strip(line)
    IN  IF tool_change_fails(l) \/ z_move_fails(l) \/ ~parse_gcode(l).ok
        THEN [p EXCEPT !.error = "ValueError"]
        ELSE process_prime_line(order, process_z_move(process_tool_change(p, l), l), l)

\* lines[:-5]
CutTail(lines) == SubSeq(lines, 1, Len(lines) - 5)

PrimeRetraceProcessor_get_lines(p) ==
    IF p.idle_temps.some THEN Append(CutTail(p.lines), p.active_idle_line)
    ELSE CutTail(p.lines)

RECURSIVE PrimeRetraceProcessor_process_lines(_, _, _, _)
PrimeRetraceProcessor_process_lines(order, p, lines, i) ==
    IF i > Len(lines) \/ p.error # "none" THEN p
    ELSE PrimeRetraceProcessor_process_lines(
             order, PrimeRetraceProcessor_process_line(order, p, lines[i]),
             lines, i + 1)

\* ----------------------------------------------------------- PrimeProcessor

\* PrimeProcessor.process_lines(lines): self.lines, or the ValueError of one
\* of the recognizers of Processor
PrimeProcessor_fails(lines) ==
    \E i \in 1..Len(lines) :
        tool_change_fails(Strip(lines[i])) \/ z_move_fails(Strip(lines[i]))

PrimeProcessor_lines(lines) == [i \in 1..Len(lines) |-> Strip(lines[i])]

PrimeProcessor_pre_lines(active_tool, printing_temps) ==
    << ";PRE-PRIME-TOWER",
       "M104 T" \o IntToStr(active_tool) \o " S"
           \o IntToStr(printing_temps[active_tool]) >>

WarmupTrace(order, lines, feed_override) ==
    PrimeRetraceProcessor_process_lines(
        order, PrimeRetraceProcessor_init(NoDict, feed_override, 0, None),
        PrimeProcessor_lines(lines), 1)

\* PrimeProcessor.get_lines() after process_lines(lines)
PrimeProcessor_get_lines(order, lines, active_tool, pre_ramp, printing_temps, feed_override) ==
    IF pre_ramp
    THEN PrimeProcessor_pre_lines(active_tool, printing_temps)
         \o <<"G91", "G0 Z-0.2", "G90">>
         \o PrimeRetraceProcessor_get_lines(WarmupTrace(order, lines, feed_override))
         \o <<"G91", "G0 Z0.2", "G90">>
         \o PrimeProcessor_lines(lines)
    ELSE PrimeProcessor_pre_lines(active_tool, printing_temps)
         \o PrimeProcessor_lines(lines)

\* ------------------------------------------------------------ modify_blocks

Block_copy(dflt, b) ==
    BlockWithMaps(b.lines, b.state, b.start_z, b.finish_z, b.active_tool,
                  TargetTemps(dflt, b), ReachedTarget(dflt, b))

Block_copy_empty_lines(dflt, b) ==
    BlockWithMaps(<<>>, b.state, b.start_z, b.finish_z, b.active_tool,
                  TargetTemps(dflt, b), ReachedTarget(dflt, b))

\* block.remove_matching_ops('M10[49]')
TempOpPrefix(op) == StartsWith(op, "M104") \/ StartsWith(op, "M109")

RECURSIVE KeepNonTemp(_)
KeepNonTemp(lines) ==
    IF Len(lines) = 0 THEN <<>>
    ELSE IF parse_gcode(Head(lines)).op # "" /\ TempOpPrefix(parse_gcode(Head(lines)).op)
         THEN KeepNonTemp(Tail(lines))
         ELSE <<Head(lines)>> \o KeepNonTemp(Tail(lines))

remove_matching_ops_fails(b) == \E i \in 1..Len(b.lines) : ~parse_gcode(b.lines[i]).ok

remove_matching_ops(b) == [b EXCEPT !.lines = KeepNonTemp(b.lines)]

\* the locals of modify_blocks before its loop
modify_blocks_init(feedrate_override, idle_temps, printing_temps) ==
    [given |-> <<>>,      \* the blocks argument as passed, as far as the loop got
     blocks |-> <<>>,     \* the same block objects as they are now
     feedrate_override |-> feedrate_override,
     idle_temps |-> idle_temps, printing_temps |-> printing_temps,
     output_blocks |-> <<>>,
     last_prime_block |-> Block(<<>>, S_INIT, IntNum(0), IntNum(0), 0),
     last_block |-> Block(<<>>, S_INIT, IntNum(0), IntNum(0), 0),
     seen_first_part_block_tools |-> {},
     pc |-> "loop", error |-> "none"]

Raise(m, block, error) ==
    [m EXCEPT !.given = Append(@, block), !.blocks = Append(@, block),
              !.error = error]

\* "if set(seen_first_part_block_tools) == set(idle_temps.keys())"
Strips(m) == m.seen_first_part_block_tools = DOMAIN m.idle_temps

Stripped(m, block) == IF Strips(m) THEN remove_matching_ops(block) ELSE block

\* the loop body for a block in state S_INIT
ModifyInitBlock(m, block) ==
    [m EXCEPT !.given = Append(@, block), !.blocks = Append(@, block),
              !.output_blocks = Append(@, block), !.last_block = block]

\* the loop body for a block in state S_PRIME_BLOCK; b is the block after the
\* strip, r what add_temperatures returned
PreRamp(dflt, m, tool) ==
    ~(/\ TargetTemps(dflt, m.last_block)[tool] = m.printing_temps[tool]
      /\ ReachedTarget(dflt, m.last_block)[tool])

PrimeNewBlock(order, dflt, m, b) ==
    [Block_copy_empty_lines(dflt, b) EXCEPT
        !.lines = PrimeProcessor_get_lines(
                      order, b.lines, b.active_tool,
                      PreRamp(dflt, m, b.active_tool),
                      m.printing_temps, m.feedrate_override)]

PrimeInjected(dflt, m, block, b, r) ==
    IF r.error # "none" THEN Raise(m, block, r.error)
    ELSE [m EXCEPT !.given = Append(@, block), !.blocks = Append(@, b),
                   !.last_prime_block = Block_copy(dflt, b),
                   !.output_blocks = Append(@, r.block),
                   !.last_block = r.block]

PrimeStripped(order, dflt, m, block, b) ==
    IF \/ b.active_tool \notin DOMAIN TargetTemps(dflt, m.last_block)
       \/ b.active_tool \notin DOMAIN m.printing_temps
    THEN Raise(m, block, "KeyError")
    ELSE IF \/ PrimeProcessor_fails(b.lines)
            \/ /\ PreRamp(dflt, m, b.active_tool)
               /\ WarmupTrace(order, b.lines, m.feedrate_override).error # "none"
    THEN Raise(m, block, "ValueError")
    ELSE PrimeInjected(dflt, m, block, b,
             add_temperatures(dflt, PrimeNewBlock(order, dflt, m, b), TRUE,
                              m.printing_temps,
                              TargetTemps(dflt, m.last_block),
                              ReachedTarget(dflt, m.last_block)))

ModifyPrime(order, dflt, m, block) ==
    IF Strips(m) /\ remove_matching_ops_fails(block)
    THEN Raise(m, block, "ValueError")
    ELSE PrimeStripped(order, dflt, m, block, Stripped(m, block))

\* the loop body for a block in state S_PART
PartInjected(m, block, b, r) ==
    IF r.error # "none" THEN Raise(m, block, r.error)
    ELSE [m EXCEPT !.given = Append(@, block), !.blocks = Append(@, b),
                   !.output_blocks = Append(@, r.block),
                   !.seen_first_part_block_tools = @ \cup {b.active_tool},
                   !.last_block = r.block]

PartStripped(dflt, m, block, b) ==
    PartInjected(m, block, b,
        add_temperatures(dflt, Block_copy(dflt, b), FALSE, m.printing_temps,
                         TargetTemps(dflt, m.last_block),
                         ReachedTarget(dflt, m.last_block)))

ModifyPart(dflt, m, block) ==
    IF Strips(m) /\ remove_matching_ops_fails(block)
    THEN Raise(m, block, "ValueError")
    ELSE PartStripped(dflt, m, block, Stripped(m, block))

\* as WipeTrace, the synthesizer constructed for tool 0
WipeTrace_tool_zero(order, m) ==
    PrimeRetraceProcessor_process_lines(
        order,
        PrimeRetraceProcessor_init(SomeDict(m.idle_temps), m.feedrate_override,
                                   0, Some(m.last_prime_block.finish_z)),
        m.last_prime_block.lines, 1)

\* the wipe trace of the last captured PRIME block
WipeTrace(order, m) ==
    PrimeRetraceProcessor_process_lines(
        order,
        PrimeRetraceProcessor_init(SomeDict(m.idle_temps), m.feedrate_override,
                                   m.last_prime_block.active_tool,
                                   Some(m.last_prime_block.finish_z)),
        m.last_prime_block.lines, 1)

\* the loop body for a block in state S_END_EXTRUDER; trace is the
\* synthesizer after process_lines
EndExtruderTraced(dflt, m, block, b, trace) ==
    IF trace.error # "none" THEN Raise(m, block, trace.error)
    ELSE [m EXCEPT !.given = Append(@, block), !.blocks = Append(@, b),
                   !.output_blocks =
                       @ \o << [Block_copy_empty_lines(dflt, m.last_prime_block) EXCEPT
                                   !.state = S_PRIME_WIPE_BLOCK,
                                   !.active_tool = b.active_tool,
                                   !.lines = PrimeRetraceProcessor_get_lines(trace)],
                               b >>,
                   !.last_block = b]

ModifyEndExtruder(order, dflt, m, block) ==
    IF Strips(m) /\ remove_matching_ops_fails(block)
    THEN Raise(m, block, "ValueError")
    ELSE EndExtruderTraced(dflt, m, block, Stripped(m, block), WipeTrace(order, m))

\* the loop body for a block in any other state
OtherStripped(m, block, b) ==
    [m EXCEPT !.given = Append(@, block), !.blocks = Append(@, b),
              !.output_blocks = Append(@, b), !.last_block = b]

ModifyOther(m, block) ==
    IF Strips(m) /\ remove_matching_ops_fails(block)
    THEN Raise(m, block, "ValueError")
    ELSE OtherStripped(m, block, Stripped(m, block))

\* as ModifyFinish, one command per tool of the printing-temperature map
ModifyFinish_printing_tools(m) ==
    LET ks == SortedKeys(DOMAIN m.printing_temps)
        end_block ==
            [Block(<<>>, S_INIT, IntNum(0), IntNum(0), 0) EXCEPT
                !.state = S_END,
                !.lines = [i \in 1..Len(ks) |-> "M104 T" \o IntToStr(ks[i]) \o " S0"]]
    IN  [m EXCEPT !.output_blocks = Append(@, end_block), !.pc = "done"]

\* after the loop: the END block, and the return
ModifyFinish(m) ==
    LET ks == SortedKeys(DOMAIN m.idle_temps)
        end_block ==
            [Block(<<>>, S_INIT, IntNum(0), IntNum(0), 0) EXCEPT
                !.state = S_END,
                !.lines = [i \in 1..Len(ks) |-> "M104 T" \o IntToStr(ks[i]) \o " S0"]]
    IN  [m EXCEPT !.output_blocks = Append(@, end_block), !.pc = "done"]

\* ------------------------------------------------------------ input lines

\* The families of lines a run feeds; a run draws its lines from one family.
\* Tools and temperature targets are integers in all of them.
TempLines ==
    {"T0", "T1", "M104 S220", "M109 S110", "M104 T1 S215", "M109 T0 S100",
     "M109 S0"}

BlockLines ==
    {";END-INIT", ";TYPE:WALL-OUTER", ";TYPE:PRIME-TOWER",
     "; EXTRUDER END HOME", " G1 X1 E1 ", "T1", "M109 S200"}

HeightLines ==
    {"G0 Z0.5", "G1 Z12.5", "G1 X1 Z10 F600", "G0 X1 Y1", ";TYPE:FILL",
     "G1 F600 Z0.9", "G1 X Z1"}

\* tool changes, a temperature command naming another tool, moves with and
\* without a height, a height in a comment, a tool change without a number
TrackerLines ==
    {"T1", "T0", "M104 T2 S100", "G0 Z0.5", "G1 X1 Y1", "G92 Z0", "G1 X1 ;Z5", "T"}

\* annotation triggers between temperature commands, tool changes and Z moves
SegmentLines ==
    {";TYPE:WALL-OUTER", ";TYPE:PRIME-TOWER", "T1", "M104 S200", "M109 T0 S210",
     "G0 Z0.5", "G1 X1 E1"}

FilterLines ==
    {"T0", "T1", "M104 S100", "M104 T1 S200", "M109 S200", "M109 T0 S100",
     " M104 S200", "M109 S100"}

\* what add_temperatures is called with: the lines of the block, ...
InjectLines ==
    { <<"G0 X1 Y1", "G0 X20 Y1", "G1 X2 Y2 E5", "G0 X3 Y10", "G1 X3 Y5 E10">>,
      <<"G0 X1 Y1", "G1 F600 ;E5">>,
      <<"G92 E0", "G1 X1 E1">> }

\* ... printing_temps (idle_temps is not read), ...
PrintingTemps == (0 :> 220) @@ (1 :> 215)

\* ... target_temps and reached_target (the finish maps of the block before), ...
PriorMaps ==
    { [target |-> EmptyDict, reached |-> EmptyDict],
      [target |-> (0 :> 220) @@ (1 :> 215), reached |-> (0 :> TRUE) @@ (1 :> TRUE)],
      [target |-> (0 :> 220) @@ (1 :> 215), reached |-> (0 :> FALSE) @@ (1 :> FALSE)],
      [target |-> (0 :> 100) @@ (1 :> 110), reached |-> (0 :> TRUE) @@ (1 :> TRUE)] }

\* ... and the finish maps the block was constructed with, when it was given any
OwnMaps ==
    { [target |-> EmptyDict, reached |-> EmptyDict],
      [target |-> (0 :> 220) @@ (1 :> 215), reached |-> (0 :> FALSE) @@ (1 :> TRUE)] }

WipeLines == {"G1 F600 Z0.5", "G1 X1 Y1 Z0.7 E1 F1200", "G92 E0", "G92 Z0"}

\* a replayed block that homes X and Y before its first G0 / G1
WipeHomeLines == {"G28 X0 Y0", "G1 F600 Z0.5", "G1 X1 Y1 Z0.7 E1 F1200"}

\* how the two callers construct the synthesizer: the warm-up trace (no idle
\* temperatures, no forced height) and the wipe trace of modify_blocks
WipeArgs ==
    { [idle_temps |-> NoDict, feed_override |-> IntNum(600), active_tool |-> 1,
       z_override |-> None],
      [idle_temps |-> SomeDict((0 :> 100) @@ (1 :> 110)),
       feed_override |-> IntNum(600), active_tool |-> 1,
       z_override |-> Some(float("0.5"))] }

\* The blocks modify_blocks is given: the first one is the INIT block, the
\* others are drawn from these, for tools 0 and 1; every block carries the
\* finish maps it was sealed with.
HotMaps == [target |-> (0 :> 220) @@ (1 :> 215), reached |-> (0 :> TRUE) @@ (1 :> TRUE)]
ColdMaps == [target |-> (0 :> 100) @@ (1 :> 110), reached |-> (0 :> TRUE) @@ (1 :> TRUE)]
NoMaps == [target |-> EmptyDict, reached |-> EmptyDict]

InitBlocks ==
    { BlockWithMaps(<<"M109 S220">>, S_INIT, IntNum(0), IntNum(0), 0,
                    maps.target, maps.reached) : maps \in {HotMaps, ColdMaps, NoMaps} }

PrimeLines ==
    { <<";TYPE:PRIME-TOWER", "G1 F600 Z0.5", "G1 X1 Y1 E1",
        "M104 S200", "G1 X2 Y1 E2", "G1 X2 Y2 E3", "G1 X1 Y2 E4", "G0 X9 Y9">>,
      <<";TYPE:PRIME-TOWER", "G92 E0", "G1 F600 Z0.5", "G1 X1 Y1 E1",
        "G1 X2 Y1 E2", "G1 X2 Y2 E3", "G1 X1 Y2 E4", "G0 X9 Y9">> }

PrimeBlocks ==
    { BlockWithMaps(lines, S_PRIME_BLOCK, float("0.3"), float("0.5"), tool,
                    ColdMaps.target, ColdMaps.reached) :
          lines \in PrimeLines, tool \in {0, 1} }

PartBlocks ==
    { BlockWithMaps(<<";TYPE:WALL-OUTER", "M104 S215", "G1 X5 Y5 E1">>,
                    S_PART, float("0.5"), float("0.5"), tool,
                    HotMaps.target, HotMaps.reached) : tool \in {0, 1} }

EndExtruderBlocks ==
    { BlockWithMaps(<<"; EXTRUDER END HOME", "G1 X0 Y0">>,
                    S_END_EXTRUDER, float("0.5"), float("0.5"), tool,
                    HotMaps.target, HotMaps.reached) : tool \in {0, 1} }

OtherBlocks ==
    { BlockWithMaps(<<"; EXTRUDER START HOME", "M109 S110">>,
                    S_START_EXTRUDER, float("0.5"), float("0.5"), 0,
                    ColdMaps.target, ColdMaps.reached) }

\* idle_temps and printing_temps
TempMaps ==
    { [idle |-> (0 :> 100) @@ (1 :> 110), printing |-> (0 :> 220) @@ (1 :> 215)],
      [idle |-> (0 :> 100), printing |-> (0 :> 220)],
      [idle |-> (0 :> 100), printing |-> (0 :> 220) @@ (1 :> 215)] }

LinesOf(s) ==
    CASE s = "temps" -> TempLines
      [] s = "blocks" -> BlockLines
      [] s = "heights" -> HeightLines
      [] s = "tracker" -> TrackerLines
      [] s = "segments" -> SegmentLines
      [] s = "filter" -> FilterLines
      [] s = "wipe" -> WipeLines
      [] s = "wipe_home" -> WipeHomeLines

\* ------------------------------------------------------- the specifications

Defaults_init ==
    [finish_target_temps |-> EmptyDict, finish_reached_target |-> EmptyDict]

AscendingKeys == <<"E", "F", "S", "T", "X", "Y", "Z">>

Inject_init ==
    [calls |-> 0, error |-> "none",
     before |-> Block(<<>>, S_INIT, IntNum(0), IntNum(0), 0),
     block |-> Block(<<>>, S_INIT, IntNum(0), IntNum(0), 0),
     wait |-> FALSE, printing_temps |-> EmptyDict,
     target_temps |-> EmptyDict, reached_target |-> EmptyDict]

\* the objects as constructed, before any run
Retrace_init == PrimeRetraceProcessor_init(NoDict, IntNum(600), 0, None)

Modify_idle == modify_blocks_init(IntNum(600), EmptyDict, EmptyDict)

\* no call of rewrite made
Rewrite_idle ==
    [call |-> "none", line |-> "", op_regex |-> move_regex,
     override |-> EmptyDict, force |-> EmptyDict, delete |-> {},
     feed_override |-> IntNum(0), z_force |-> None,
     error |-> "none", result |-> ""]

Constructed ==
    /\ fed = <<>>
    /\ Block_defaults = Defaults_init
    /\ bp = BlockProcessor_init
    /\ tm = TempMinimizeProcessor_init
    /\ inj = Inject_init

\* The Block Segmenter (with the trackers it extends) fed line by line.
Init ==
    /\ key_order = AscendingKeys
    /\ scn \in {"temps", "blocks", "heights", "tracker", "segments"}
    /\ Constructed
    /\ rw = Rewrite_idle
    /\ pr = Retrace_init
    /\ mb = Modify_idle

\* BlockProcessor.process_line(line), one line of process_lines
ProcessLine ==
    /\ Len(fed) < MaxLines
    /\ bp.error = "none"
    /\ \E line \in LinesOf(scn) :
          /\ fed' = Append(fed, line)
          /\ bp' = BlockProcessor_process_line(bp, line)
    /\ UNCHANGED <<key_order, scn, Block_defaults, tm, inj, pr, mb, rw>>

Next == ProcessLine

Spec == Init /\ [][Next]_vars

\* The Redundancy Filter fed line by line.
InitFilter ==
    /\ key_order = AscendingKeys
    /\ scn = "filter"
    /\ Constructed
    /\ rw = Rewrite_idle
    /\ pr = Retrace_init
    /\ mb = Modify_idle

\* TempMinimizeProcessor.process_line(line), one line of process_lines
FilterLine ==
    /\ Len(fed) < MaxLines
    /\ tm.error = "none"
    /\ \E line \in LinesOf(scn) :
          /\ fed' = Append(fed, line)
          /\ tm' = TempMinimizeProcessor_process_line(tm, line)
    /\ UNCHANGED <<key_order, scn, Block_defaults, bp, inj, pr, mb, rw>>

NextFilter == FilterLine

SpecFilter == InitFilter /\ [][NextFilter]_vars

\* Temperature injection called on freshly constructed blocks, one after the
\* other in one process (as the tests do).
InitInject ==
    /\ key_order = AscendingKeys
    /\ scn = "inject"
    /\ Constructed
    /\ rw = Rewrite_idle
    /\ pr = Retrace_init
    /\ mb = Modify_idle

RecordCall(r, b, wait, printing_temps, prior) ==
    /\ inj' = [calls |-> inj.calls + 1, error |-> r.error,
               before |-> b, block |-> r.block, wait |-> wait,
               printing_temps |-> printing_temps,
               target_temps |-> prior.target, reached_target |-> prior.reached]
    /\ Block_defaults' = r.defaults

Inject(b, wait, printing_temps, prior) ==
    RecordCall(add_temperatures(Block_defaults, b, wait, printing_temps,
                                prior.target, prior.reached),
               b, wait, printing_temps, prior)

\* Block(lines, state, start_z, finish_z, active_tool).add_temperatures(..)
AddTemperaturesDefaultMaps ==
    /\ inj.calls < MaxCalls
    /\ inj.error = "none"
    /\ \E lines \in InjectLines, tool \in {0, 1}, wait \in BOOLEAN,
          prior \in PriorMaps :
          Inject(Block(lines, S_PRIME_BLOCK, IntNum(0), IntNum(0), tool),
                 wait, PrintingTemps, prior)
    /\ UNCHANGED <<key_order, scn, fed, bp, tm, pr, mb, rw>>

\* the same on a block constructed with finish maps of its own
AddTemperaturesOwnMaps ==
    /\ inj.calls < MaxCalls
    /\ inj.error = "none"
    /\ \E lines \in InjectLines, tool \in {0, 1}, wait \in BOOLEAN,
          prior \in PriorMaps, own \in OwnMaps :
          Inject(BlockWithMaps(lines, S_PRIME_BLOCK, IntNum(0), IntNum(0), tool,
                               own.target, own.reached),
                 wait, PrintingTemps, prior)
    /\ UNCHANGED <<key_order, scn, fed, bp, tm, pr, mb, rw>>

NextInject == AddTemperaturesDefaultMaps \/ AddTemperaturesOwnMaps

SpecInject == InitInject /\ [][NextInject]_vars

\* The Wipe-trace synthesizer fed the lines of a PRIME block.
InitWipe ==
    /\ key_order \in KeyOrders
    /\ scn \in {"wipe", "wipe_home"}
    /\ Constructed
    /\ rw = Rewrite_idle
    /\ \E a \in WipeArgs :
          pr = PrimeRetraceProcessor_init(a.idle_temps, a.feed_override,
                                          a.active_tool, a.z_override)
    /\ mb = Modify_idle

\* PrimeRetraceProcessor.process_line(line), one line of process_lines
WipeLine ==
    /\ Len(fed) < MaxWipeLines
    /\ pr.error = "none"
    /\ \E line \in LinesOf(scn) :
          /\ fed' = Append(fed, line)
          /\ pr' = PrimeRetraceProcessor_process_line(key_order, pr, line)
    /\ UNCHANGED <<key_order, scn, Block_defaults, bp, tm, inj, mb, rw>>

NextWipe == WipeLine

SpecWipe == InitWipe /\ [][NextWipe]_vars

\* modify_blocks(blocks, feedrate_override, idle_temps, printing_temps), one
\* pass of its loop per step; the blocks argument is chosen block by block.
InitModify ==
    /\ key_order = AscendingKeys
    /\ scn = "modify"
    /\ Constructed
    /\ rw = Rewrite_idle
    /\ pr = Retrace_init
    /\ \E t \in TempMaps : mb = modify_blocks_init(IntNum(600), t.idle, t.printing)

Looping == mb.pc = "loop" /\ mb.error = "none"

Rest == <<key_order, scn, fed, Block_defaults, bp, tm, inj, pr, rw>>

StepInitBlock ==
    /\ Looping /\ Len(mb.given) = 0
    /\ \E block \in InitBlocks : mb' = ModifyInitBlock(mb, block)
    /\ UNCHANGED Rest

StepPrime ==
    /\ Looping /\ Len(mb.given) \in 1..(MaxBlocks - 1)
    /\ \E block \in PrimeBlocks :
          mb' = ModifyPrime(key_order, Block_defaults, mb, block)
    /\ UNCHANGED Rest

StepPart ==
    /\ Looping /\ Len(mb.given) \in 1..(MaxBlocks - 1)
    /\ \E block \in PartBlocks : mb' = ModifyPart(Block_defaults, mb, block)
    /\ UNCHANGED Rest

StepEndExtruder ==
    /\ Looping /\ Len(mb.given) \in 1..(MaxBlocks - 1)
    /\ \E block \in EndExtruderBlocks :
          mb' = ModifyEndExtruder(key_order, Block_defaults, mb, block)
    /\ UNCHANGED Rest

StepOther ==
    /\ Looping /\ Len(mb.given) \in 1..(MaxBlocks - 1)
    /\ \E block \in OtherBlocks : mb' = ModifyOther(mb, block)
    /\ UNCHANGED Rest

Return ==
    /\ Looping /\ Len(mb.given) >= 1
    /\ mb' = ModifyFinish(mb)
    /\ UNCHANGED Rest

NextModify ==
    StepInitBlock \/ StepPrime \/ StepPart \/ StepEndExtruder \/ StepOther \/ Return

SpecModify == InitModify /\ [][NextModify]_vars

\* rewrite(gcode_string, op_regex, override, force, delete) and
\* rewrite_move(line, feed_override, z_force), called once on arguments drawn
\* from these.
RewriteLines ==
    {"M104 T1 S200", "G82", "G1 F6400 X100 Y200", "", " ;only a comment",
     " G28 ; home", "M117 Hello", "G1 X1 Y1 Z0.7 E1 F1200",
     "G0 X0.1234567890123 F100", "G10 X5"}

RewriteRegexes == {"^G[01]$", "G[01]", "M10[49]"}

Overrides == {EmptyDict, [k \in {"F"} |-> IntNum(1000)], [k \in {"S"} |-> IntNum(170)]}

Forces ==
    {EmptyDict, [k \in {"Z"} |-> float("0.5")], [k \in {"F", "S"} |-> IntNum(400)]}

Deletes == {{}, {"S"}, {"E", "Z"}, {"F", "Z"}}

ZForces == {None, Some(float("0.5"))}

InitRewrite ==
    /\ key_order \in KeyOrders
    /\ scn = "rewrite"
    /\ Constructed
    /\ pr = Retrace_init
    /\ mb = Modify_idle
    /\ \E line \in RewriteLines, op_regex \in RewriteRegexes, override \in Overrides,
          force \in Forces, delete \in Deletes, z_force \in ZForces :
          rw = [Rewrite_idle EXCEPT
                   !.line = line, !.op_regex = op_regex, !.override = override,
                   !.force = force, !.delete = delete,
                   !.feed_override = IntNum(400), !.z_force = z_force]

RewriteFrame == <<key_order, scn, fed, Block_defaults, bp, tm, inj, pr, mb>>

\* rewrite(line, op_regex, override, force, delete)
CallRewrite ==
    /\ rw.call = "none"
    /\ rw' = [rw EXCEPT
                !.call = "rewrite",
                !.error = IF parse_gcode(rw.line).ok THEN "none" ELSE "ValueError",
                !.result = IF parse_gcode(rw.line).ok
                           THEN rewrite(key_order, rw.line, rw.op_regex,
                                        rw.override, rw.force, rw.delete)
                           ELSE ""]
    /\ UNCHANGED RewriteFrame

\* rewrite_move(line, feed_override, z_force)
CallRewriteMove ==
    /\ rw.call = "none"
    /\ rw' = [rw EXCEPT
                !.call = "rewrite_move",
                !.error = IF parse_gcode(rw.line).ok THEN "none" ELSE "ValueError",
                !.result = IF parse_gcode(rw.line).ok
                           THEN rewrite_move(key_order, rw.line, rw.feed_override,
                                             rw.z_force)
                           ELSE ""]
    /\ UNCHANGED RewriteFrame

NextRewrite == CallRewrite \/ CallRewriteMove

SpecRewrite == InitRewrite /\ [][NextRewrite]_vars

\* The whole pipeline: BlockProcessor.process_lines over the input, section
\* by section, then modify_blocks(get_blocks(), 600, idle_temps,
\* printing_temps) with the maps the same processor collected.
InitSections ==
    { <<"M104 T1 S110", "M109 T1 S215", "M109 T0 S220">>,
      <<"M109 S220">> }

Sections ==
    { <<";TYPE:PRIME-TOWER", "G1 F600 Z0.5", "G1 X1 Y1 E1", "G1 X2 Y1 E2",
        "G1 X2 Y2 E3", "G1 X1 Y2 E4", "G0 X9 Y9">>,
      <<";TYPE:WALL-OUTER", "G1 X5 Y5 E1">>,
      <<"; EXTRUDER END HOME", "G1 X0 Y0">>,
      <<"; EXTRUDER START HOME", "T1">>,
      <<"; EXTRUDER START HOME", "T1", "M109 S215">> }

MaxSections == 4

RECURSIVE BlockProcessor_process_lines(_, _, _)
BlockProcessor_process_lines(p, lines, i) ==
    IF i > Len(lines) \/ p.error # "none" THEN p
    ELSE BlockProcessor_process_lines(BlockProcessor_process_line(p, lines[i]), lines, i + 1)

\* the loop body of modify_blocks for one block
ModifyBlock(order, dflt, m, block) ==
    CASE block.state = S_INIT -> ModifyInitBlock(m, block)
      [] block.state = S_PRIME_BLOCK -> ModifyPrime(order, dflt, m, block)
      [] block.state = S_PART -> ModifyPart(dflt, m, block)
      [] block.state = S_END_EXTRUDER -> ModifyEndExtruder(order, dflt, m, block)
      [] OTHER -> ModifyOther(m, block)

InitPipeline ==
    /\ key_order = AscendingKeys
    /\ scn = "pipeline"
    /\ Constructed
    /\ rw = Rewrite_idle
    /\ pr = Retrace_init
    /\ mb = Modify_idle

\* process_lines(section)
FeedSection ==
    /\ scn = "pipeline"
    /\ bp.error = "none"
    /\ Len(bp.blocks) < MaxSections
    /\ \E section \in (IF fed = <<>> THEN InitSections ELSE Sections) :
          /\ fed' = fed \o section
          /\ bp' = BlockProcessor_process_lines(bp, section, 1)
    /\ UNCHANGED <<key_order, scn, Block_defaults, tm, inj, pr, mb, rw>>

\* modify_blocks(...) up to its loop
StartModify ==
    /\ scn = "pipeline"
    /\ fed # <<>> /\ bp.error = "none"
    /\ scn' = "pipeline_modify"
    /\ mb' = modify_blocks_init(IntNum(600), bp.idle_temps, bp.printing_temps)
    /\ UNCHANGED <<key_order, fed, Block_defaults, bp, tm, inj, pr, rw>>

\* one pass of the loop
ModifyNextBlock ==
    /\ scn = "pipeline_modify"
    /\ Looping /\ Len(mb.given) < Len(get_blocks(bp))
    /\ mb' = ModifyBlock(key_order, Block_defaults, mb, get_blocks(bp)[Len(mb.given) + 1])
    /\ UNCHANGED Rest

\* after the loop
ModifyReturn ==
    /\ scn = "pipeline_modify"
    /\ Looping /\ Len(mb.given) = Len(get_blocks(bp))
    /\ mb' = ModifyFinish(mb)
    /\ UNCHANGED Rest

NextPipeline == FeedSection \/ StartModify \/ ModifyNextBlock \/ ModifyReturn

SpecPipeline == InitPipeline /\ [][NextPipeline]_vars

\* ================================================================ claims

\* ------------------------------------------------- the history, read again

RECURSIVE ConcatLines(_)
ConcatLines(blocks) ==
    IF Len(blocks) = 0 THEN <<>>
    ELSE Head(blocks).lines \o ConcatLines(Tail(blocks))

Trimmed(lines) == [i \in 1..Len(lines) |-> Strip(lines[i])]

\* the active tool when line i is reached: the n of the last 'T<n>' before it
ActiveToolAt(lines, i) ==
    LET changes == {j \in 1..(i - 1) : tool_regex(Strip(lines[j]))}
    IN  IF changes = {} THEN 0
        ELSE DigitsValue(SubSeq(Strip(lines[SetMax(changes)]), 2,
                                Len(Strip(lines[SetMax(changes)]))))

IsTempLine(line) == IsTempOp(parse_gcode(line).op)

\* the tool and the target of temperature line i
AddressedTool(lines, i) ==
    LET args == parse_gcode(lines[i]).args
    IN  IF "T" \in DOMAIN args THEN args["T"].m ELSE ActiveToolAt(lines, i)

TargetOf(line) == parse_gcode(line).args["S"].m

\* the non-zero targets commanded for a tool by the lines
NonZeroTargets(lines, tool) ==
    {TargetOf(lines[i]) : i \in {j \in 1..Len(lines) :
        /\ IsTempLine(lines[j])
        /\ AddressedTool(lines, j) = tool
        /\ TargetOf(lines[j]) # 0}}

ToolsSeen(lines) ==
    {AddressedTool(lines, i) : i \in {j \in 1..Len(lines) : IsTempLine(lines[j])}}

\* C1: the lines of the blocks of get_blocks(), concatenated in order, are the
\* lines fed to process_lines, each whitespace-trimmed: none lost, duplicated
\* or reordered.
C1_BlocksPartitionInput ==
    bp.error = "none" => ConcatLines(get_blocks(bp)) = Trimmed(fed)

C1_Witness ==
    /\ bp.error = "none"
    /\ Len(bp.blocks) >= 2
    /\ \E i \in 1..Len(fed) : Strip(fed[i]) # fed[i]
    /\ \E k \in 1..Len(bp.blocks) : Len(bp.blocks[k].lines) >= 2

\* the last temperature line before line i that addresses the same tool (0
\* when there is none)
PreviousCommand(lines, i) ==
    LET before == {j \in 1..(i - 1) :
                      /\ IsTempLine(lines[j])
                      /\ AddressedTool(lines, j) = AddressedTool(lines, i)}
    IN  IF before = {} THEN 0 ELSE SetMax(before)

\* line i is a redundant temperature command: an M104 whose target is the
\* last one commanded for its tool, or an M109 whose target is the last one
\* commanded and reached (the last command for the tool was an M109)
Redundant(lines, i) ==
    /\ IsTempLine(lines[i])
    /\ PreviousCommand(lines, i) # 0
    /\ TargetOf(lines[PreviousCommand(lines, i)]) = TargetOf(lines[i])
    /\ \/ parse_gcode(lines[i]).op = "M104"
       \/ parse_gcode(lines[PreviousCommand(lines, i)]).op = "M109"

RECURSIVE KeptLines(_, _)
KeptLines(lines, n) ==
    IF n = 0 THEN <<>>
    ELSE IF Redundant(lines, n) THEN KeptLines(lines, n - 1)
         ELSE Append(KeptLines(lines, n - 1), Strip(lines[n]))

\* C2: get_lines() of the Redundancy Filter is the input with exactly the
\* redundant temperature commands left out (an M104 at the tool's last
\* commanded target; an M109 at the tool's last commanded and reached target),
\* every other line kept in input order; whether a line is kept depends on the
\* lines before it only.
C2_FilterDropsExactlyRedundant ==
    tm.error = "none" => get_lines(tm) = KeptLines(fed, Len(fed))

C2_Witness ==
    /\ tm.error = "none"
    /\ \E i, j, k \in 1..Len(fed) :
          /\ Redundant(fed, i) /\ parse_gcode(fed[i]).op = "M104"
          /\ Redundant(fed, k) /\ parse_gcode(fed[k]).op = "M109"
          /\ ~Redundant(fed, j) /\ parse_gcode(fed[j]).op = "M109"
          /\ PreviousCommand(fed, j) # 0
          /\ TargetOf(fed[PreviousCommand(fed, j)]) = TargetOf(fed[j])
    /\ Len(get_lines(tm)) = 2

\* C3: for every tool the idle temperature is the minimum and the printing
\* temperature the maximum of the non-zero targets commanded so far for that
\* tool; a tool with no non-zero command has no entry in either map.
C3_IdleMinPrintingMax ==
    bp.error = "none" =>
        LET tools == {t \in ToolsSeen(fed) : NonZeroTargets(fed, t) # {}}
        IN  /\ DOMAIN bp.idle_temps = tools
            /\ DOMAIN bp.printing_temps = tools
            /\ \A t \in tools :
                  /\ bp.idle_temps[t] = SetMin(NonZeroTargets(fed, t))
                  /\ bp.printing_temps[t] = SetMax(NonZeroTargets(fed, t))

C3_Witness ==
    /\ bp.error = "none"
    /\ 1 \in DOMAIN bp.idle_temps
    /\ bp.idle_temps[1] < bp.printing_temps[1]
    /\ 0 \notin DOMAIN bp.idle_temps
    /\ 0 \in DOMAIN bp.target_temps /\ bp.target_temps[0] = 0

\* the G0/G1 lines that carry a Z parameter, and the height the last one of
\* the first n lines names (0 when there is none)
CarriesHeight(line) ==
    LET g == parse_gcode(line)
    IN  g.ok /\ g.op \in {"G0", "G1"} /\ "Z" \in DOMAIN g.args

LastHeight(lines, n) ==
    LET zs == {i \in 1..n : CarriesHeight(lines[i])}
    IN  IF zs = {} THEN IntNum(0) ELSE parse_gcode(lines[SetMax(zs)]).args["Z"]

RECURSIVE EndIndex(_, _)
EndIndex(blocks, k) ==
    IF k = 0 THEN 0 ELSE EndIndex(blocks, k - 1) + Len(blocks[k].lines)

\* C8: every block's finish_z is the height of the last G0/G1 line carrying a
\* Z parameter among the input lines up to the block's last line (0 if none),
\* and the tracker's current height is that of the last such line so far, for
\* any Z value.
C8_FinishZIsLastHeight ==
    bp.error = "none" =>
        /\ NumEq(bp.current_z, LastHeight(fed, Len(fed)))
        /\ \A k \in 1..Len(get_blocks(bp)) :
              NumEq(get_blocks(bp)[k].finish_z,
                    LastHeight(fed, EndIndex(get_blocks(bp), k)))

\* the lines that carry an E parameter
CarriesE(line) == "E" \in DOMAIN parse_gcode(line).args

FirstE(lines) ==
    LET es == {i \in 1..Len(lines) : CarriesE(lines[i])}
    IN  IF es = {} THEN 0 ELSE SetMin(es)

InsertBefore(lines, i, line) ==
    SubSeq(lines, 1, i - 1) \o <<line>> \o SubSeq(lines, i, Len(lines))

Injected == inj.calls > 0 /\ inj.error = "none"

\* C4: with no prior target for the block's active tool, add_temperatures
\* inserts exactly one command for that tool at its printing temperature (M109
\* when wait, M104 when not) immediately before the first line carrying an E
\* parameter, and nothing when no line carries one; the original lines stay,
\* in order.
C4_InjectsOnceBeforeFirstE ==
    (Injected /\ inj.block.active_tool \notin DOMAIN inj.target_temps) =>
        LET tool == inj.block.active_tool
            cmd == (IF inj.wait THEN "M109" ELSE "M104") \o " T" \o IntToStr(tool)
                   \o " S" \o IntToStr(inj.printing_temps[tool])
        IN  inj.block.lines =
                IF FirstE(inj.before.lines) = 0 THEN inj.before.lines
                ELSE InsertBefore(inj.before.lines, FirstE(inj.before.lines), cmd)

C4_Witness ==
    /\ Injected /\ inj.block.active_tool \notin DOMAIN inj.target_temps
    /\ inj.wait
    /\ Len(inj.before.lines) = 5
    /\ FirstE(inj.before.lines) = 3
    /\ inj.block.lines[3] = "M109 T0 S220"
    /\ Len(inj.block.lines) = 6

\* C5: when the prior finish state has, for the block's active tool, the
\* tool's printing temperature as target and reached = true, add_temperatures
\* inserts nothing: the block's lines are the same before and after.
C5_NothingInsertedWhenHot ==
    (/\ Injected
     /\ inj.block.active_tool \in DOMAIN inj.target_temps
     /\ inj.block.active_tool \in DOMAIN inj.printing_temps
     /\ inj.target_temps[inj.block.active_tool]
            = inj.printing_temps[inj.block.active_tool]
     /\ inj.reached_target[inj.block.active_tool])
    => inj.block.lines = inj.before.lines

C5_Witness ==
    /\ Injected
    /\ inj.block.active_tool = 0
    /\ 0 \in DOMAIN inj.target_temps
    /\ inj.target_temps[0] = 220 /\ inj.reached_target[0]
    /\ inj.printing_temps[0] = 220
    /\ FirstE(inj.before.lines) = 3
    /\ inj.block.lines = inj.before.lines
    /\ ~inj.before.own_maps

\* the first horizontal motion of the lines: the first G0/G1 line that carries
\* X or Y (0 when there is none)
IsHorizontalMove(line) ==
    LET g == parse_gcode(line)
    IN  g.op \in {"G0", "G1"} /\ ("X" \in DOMAIN g.args \/ "Y" \in DOMAIN g.args)

FirstMove(lines) ==
    LET ms == {i \in 1..Len(lines) : IsHorizontalMove(lines[i])}
    IN  IF ms = {} THEN 0 ELSE SetMin(ms)

CarriesZ(line) == "Z" \in DOMAIN parse_gcode(line).args

\* the lines the synthesizer puts before the replayed ones
HeaderLen == 1 + (IF pr.idle_temps.some THEN Cardinality(DOMAIN pr.idle_temps.val) ELSE 0)

\* C6: no line of the Wipe-trace synthesizer's output carries an E parameter,
\* whatever the operation codes of the replayed lines.
C6_NoExtrusionForwarded ==
    pr.error = "none" =>
        \A k \in 1..Len(PrimeRetraceProcessor_get_lines(pr)) :
            ~CarriesE(PrimeRetraceProcessor_get_lines(pr)[k])

\* C7: in the synthesizer's output, from the first horizontal motion on, the
\* only line that carries a Z parameter is the second (height-forced) copy of
\* that motion; no output line made from a later input line carries one.
C7_NoHeightAfterFirstMove ==
    (pr.error = "none" /\ FirstMove(fed) # 0) =>
        LET out == PrimeRetraceProcessor_get_lines(pr)
            first == HeaderLen + FirstMove(fed)
            replayed == Len(CutTail(pr.lines))
        IN  \A k \in first..replayed : CarriesZ(out[k]) => k = first + 1

\* the positions of the PRIME blocks given before position i, and the active
\* tool of the PRIME block captured last before position i (that of Block([])
\* when none was)
PrimesBefore(blocks, i) == {j \in 1..(i - 1) : blocks[j].state = S_PRIME_BLOCK}

LastPrimeTool(blocks, i) ==
    IF PrimesBefore(blocks, i) = {} THEN 0
    ELSE blocks[SetMax(PrimesBefore(blocks, i))].active_tool

Aborted == mb.error # "none" /\ mb.pc # "done"

\* C9: once modify_blocks has been given an EXTRUDER_END block with no PRIME
\* block before it, the call has ended in an error: it returns no output, so
\* none with a PRIME_WIPE block for that EXTRUDER_END.
C9_EndExtruderBeforePrimeIsFatal ==
    \A i \in 1..Len(mb.given) :
        (mb.given[i].state = S_END_EXTRUDER /\ PrimesBefore(mb.given, i) = {})
            => Aborted

\* C10 as stated: a PRIME block whose active tool has no printing temperature,
\* or an EXTRUDER_END block whose active tool has no idle temperature, ends
\* the call in an error.
C10_MissingToolOfBlockIsFatal ==
    \A i \in 1..Len(mb.given) :
        (\/ /\ mb.given[i].state = S_PRIME_BLOCK
            /\ mb.given[i].active_tool \notin DOMAIN mb.printing_temps
         \/ /\ mb.given[i].state = S_END_EXTRUDER
            /\ mb.given[i].active_tool \notin DOMAIN mb.idle_temps)
            => Aborted

\* C10: a PRIME block whose active tool has no printing temperature, or an
\* EXTRUDER_END block reached while the active tool of the PRIME block
\* captured last (tool 0 when none was) has no idle temperature, ends the call
\* in an error, with no output returned.
C10_MissingReplayedToolIsFatal ==
    \A i \in 1..Len(mb.given) :
        (\/ /\ mb.given[i].state = S_PRIME_BLOCK
            /\ mb.given[i].active_tool \notin DOMAIN mb.printing_temps
         \/ /\ mb.given[i].state = S_END_EXTRUDER
            /\ LastPrimeTool(mb.given, i) \notin DOMAIN mb.idle_temps)
            => Aborted

C10_Witness ==
    /\ Len(mb.given) >= 3
    /\ mb.given[Len(mb.given)].state = S_END_EXTRUDER
    /\ PrimesBefore(mb.given, Len(mb.given)) # {}
    /\ LastPrimeTool(mb.given, Len(mb.given)) \notin DOMAIN mb.idle_temps
    /\ mb.given[Len(mb.given)].active_tool \in DOMAIN mb.idle_temps
    /\ mb.error = "KeyError"

\* C11: modify_blocks leaves every block of its blocks argument as it was
\* given: same lines, state, active tool, heights and finish maps.
C11_InputBlocksUnchanged == mb.blocks = mb.given

\* the tools that were the active tool of a PART block given before position i
PartToolsBefore(blocks, i) ==
    {blocks[j].active_tool : j \in {k \in 1..(i - 1) : blocks[k].state = S_PART}}

StrippingBegun(blocks, idle_temps, i) ==
    DOMAIN idle_temps \subseteq PartToolsBefore(blocks, i)

HasTempLine(b) == \E k \in 1..Len(b.lines) : TempOpPrefix(parse_gcode(b.lines[k]).op)

\* C12: once every tool of the idle-temperature map has been the active tool
\* of a processed PART block, every non-INIT block processed after that has
\* its M104/M109 lines removed before it is transformed, to the end of the list.
C12_StrippingNeverStops ==
    mb.error = "none" =>
        \A i \in 1..Len(mb.given) :
            (mb.given[i].state # S_INIT
             /\ StrippingBegun(mb.given, mb.idle_temps, i))
                => ~HasTempLine(mb.blocks[i])

\* the position in the output of the block emitted for the block given at
\* position i (an EXTRUDER_END block is emitted after its PRIME_WIPE block)
OutPos(blocks, i) ==
    i + Cardinality({k \in 1..i : blocks[k].state = S_END_EXTRUDER})

\* the wipe trace synthesized from PRIME block b
WipeOf(order, idle_temps, feed_override, b) ==
    PrimeRetraceProcessor_get_lines(
        PrimeRetraceProcessor_process_lines(
            order,
            PrimeRetraceProcessor_init(SomeDict(idle_temps), feed_override,
                                       b.active_tool, Some(b.finish_z)),
            b.lines, 1))

WipeBeforeEndExtruder(i) ==
    /\ OutPos(mb.given, i) <= Len(mb.output_blocks)
    /\ mb.output_blocks[OutPos(mb.given, i)] = mb.blocks[i]
    /\ mb.output_blocks[OutPos(mb.given, i) - 1].state = S_PRIME_WIPE_BLOCK
    /\ mb.output_blocks[OutPos(mb.given, i) - 1].active_tool = mb.given[i].active_tool
    /\ PrimesBefore(mb.given, i) # {}
    /\ mb.output_blocks[OutPos(mb.given, i) - 1].lines =
           WipeOf(key_order, mb.idle_temps, mb.feedrate_override,
                  mb.blocks[SetMax(PrimesBefore(mb.given, i))])

\* C13: in the output, every EXTRUDER_END block of the input is immediately
\* preceded by a PRIME_WIPE block that carries the EXTRUDER_END block's active
\* tool and the wipe trace of the last PRIME block given before it; no other
\* output block is a PRIME_WIPE block.
C13_WipeBeforeEveryEndExtruder ==
    mb.error = "none" =>
        /\ \A i \in 1..Len(mb.given) :
               mb.given[i].state = S_END_EXTRUDER => WipeBeforeEndExtruder(i)
        /\ \A k \in 1..Len(mb.output_blocks) :
               mb.output_blocks[k].state = S_PRIME_WIPE_BLOCK =>
                   \E i \in 1..Len(mb.given) :
                       /\ mb.given[i].state = S_END_EXTRUDER
                       /\ k = OutPos(mb.given, i) - 1

\* C14: the list modify_blocks returns ends with an END block, the only one
\* in it, whose lines are one "M104 T<k> S0" for each tool k of the
\* idle-temperature map and nothing else.
C14_EndsWithOneEndBlock ==
    mb.pc = "done" =>
        /\ Len(mb.output_blocks) >= 1
        /\ \A k \in 1..Len(mb.output_blocks) :
               mb.output_blocks[k].state = S_END <=> k = Len(mb.output_blocks)
        /\ Len(mb.output_blocks[Len(mb.output_blocks)].lines)
               = Cardinality(DOMAIN mb.idle_temps)
        /\ {mb.output_blocks[Len(mb.output_blocks)].lines[i] :
                i \in 1..Len(mb.output_blocks[Len(mb.output_blocks)].lines)}
               = {"M104 T" \o IntToStr(k) \o " S0" : k \in DOMAIN mb.idle_temps}

C14_Witness ==
    /\ mb.pc = "done"
    /\ Len(mb.given) >= 3
    /\ Len(mb.output_blocks) > Len(mb.given)
    /\ mb.output_blocks[Len(mb.output_blocks)].lines = <<"M104 T0 S0", "M104 T1 S0">>

\* the call returned (no exception left it)
Returned(call) == rw.call = call /\ rw.error = "none"

NoOpOrNoMatch(op_regex) ==
    parse_gcode(rw.line).op = "" \/ ~OpMatch(op_regex, parse_gcode(rw.line).op)

EditedArgs(args, override, force, delete) ==
    [k \in ((DOMAIN args \cup DOMAIN force) \ delete) |->
        IF k \in DOMAIN force THEN force[k]
        ELSE IF k \in DOMAIN override THEN override[k]
        ELSE args[k]]

SameArgs(a, b) == DOMAIN a = DOMAIN b /\ \A k \in DOMAIN a : NumEq(a[k], b[k])

RewroteMatching ==
    /\ Returned("rewrite")
    /\ parse_gcode(rw.line).op # ""
    /\ OpMatch(rw.op_regex, parse_gcode(rw.line).op)

\* C16: for a line whose operation matches, the line rewrite returns has the
\* same operation, and its parameters are the original ones with override
\* keys replaced where present, force keys set, delete keys absent, and every
\* other parameter at its original value.
C16_MatchingLineEdited ==
    RewroteMatching =>
        /\ parse_gcode(rw.result).ok
        /\ parse_gcode(rw.result).op = parse_gcode(rw.line).op
        /\ SameArgs(parse_gcode(rw.result).args,
                    EditedArgs(parse_gcode(rw.line).args, rw.override, rw.force, rw.delete))

\* the same, for lines whose numbers have at most nine significant digits
C16_ShortNumbersEdited == (rw.line # "G0 X0.1234567890123 F100") => C16_MatchingLineEdited

\* a line that is exactly 'T<n>' (process_line strips the line first)
IsToolChange(line) ==
    /\ Len(Strip(line)) >= 2
    /\ Ch(Strip(line), 1) = "T"
    /\ AllDigits(SubSeq(Strip(line), 2, Len(Strip(line))))

ToolChanges(lines) == {i \in 1..Len(lines) : IsToolChange(lines[i])}

LastTool(lines) ==
    IF ToolChanges(lines) = {} THEN 0
    ELSE DigitsValue(SubSeq(Strip(lines[SetMax(ToolChanges(lines))]), 2,
                            Len(Strip(lines[SetMax(ToolChanges(lines))]))))

\* a G0 / G1 instruction with a Z parameter
IsZBearingMove(line) ==
    /\ parse_gcode(line).ok
    /\ parse_gcode(line).op \in {"G0", "G1"}
    /\ "Z" \in DOMAIN parse_gcode(line).args

TrackerStep(line) ==
    /\ bp'.active_tool = LastTool(fed')
    /\ ~IsToolChange(line) => bp'.active_tool = bp.active_tool
    /\ ~IsZBearingMove(line) => NumEq(bp'.current_z, bp.current_z)

\* C17: the tracker starts with tool 0 and height 0; after every line its
\* active tool is the n of the last line that is exactly 'T<n>' (0 if none),
\* a line that is not a tool change leaves the tool unchanged, and a line
\* that is not a G0 / G1 with a Z parameter leaves the height unchanged.
C17_TrackerFollowsToolAndHeight ==
    /\ (bp.active_tool = 0 /\ NumEq(bp.current_z, IntNum(0)))
    /\ [][\A line \in LinesOf(scn) : fed' = Append(fed, line) => TrackerStep(line)]_vars

\* the same, the height taken from no comment
C17_WithoutCommentHeights ==
    /\ (bp.active_tool = 0 /\ NumEq(bp.current_z, IntNum(0)))
    /\ [][\A line \in LinesOf(scn) :
            (fed' = Append(fed, line) /\ ~Contains(line, ";")) => TrackerStep(line)]_vars

\* the Redundancy Filter, in the state (active tool, target map, reached map),
\* dropping a command
FilterDrops(command, tool, target_temps, reached_target) ==
    get_lines(process_temp_line(
        [TempMinimizeProcessor_init EXCEPT
            !.active_tool = tool, !.target_temps = target_temps,
            !.reached_target = reached_target], command)) = <<>>

InjectedAtE == Injected /\ FirstE(inj.before.lines) # 0

\* C18: add_temperatures leaves its command out exactly when the Redundancy
\* Filter, in the prior state it is given, would drop that command: an M104
\* whenever the prior target of the tool is its printing temperature, an M109
\* only when that target was also reached.
C18_OmitsWhatFilterDrops ==
    InjectedAtE =>
        ((inj.block.lines = inj.before.lines)
            <=> FilterDrops(TempCommand(inj.wait, inj.block.active_tool,
                                        inj.printing_temps[inj.block.active_tool]),
                            inj.block.active_tool, inj.target_temps, inj.reached_target))

\* the same for the waiting command only
C18_WaitingOmitsWhatFilterDrops == inj.wait => C18_OmitsWhatFilterDrops

\* the finish maps a block holds: its own, or the shared default dicts
FinishTargetOf(b) ==
    IF b.own_maps THEN b.finish_target_temps ELSE Block_defaults.finish_target_temps

FinishReachedOf(b) ==
    IF b.own_maps THEN b.finish_reached_target ELSE Block_defaults.finish_reached_target

\* C19: after add_temperatures(wait, ...) on a block with an E-bearing line
\* the block's finish snapshot for its active tool is the tool's printing
\* temperature with reached = wait, whatever snapshot it held before and
\* whether or not the command was inserted.
C19_FinishSnapshotRecorded ==
    InjectedAtE =>
        /\ inj.block.active_tool \in DOMAIN FinishTargetOf(inj.block)
        /\ inj.block.active_tool \in DOMAIN FinishReachedOf(inj.block)
        /\ FinishTargetOf(inj.block)[inj.block.active_tool]
               = inj.printing_temps[inj.block.active_tool]
        /\ FinishReachedOf(inj.block)[inj.block.active_tool] = inj.wait

\* the same for a block whose snapshot held no entry for the tool or another
\* target before the call
C19_StaleSnapshotRecorded ==
    (/\ inj.before.own_maps
     /\ inj.before.active_tool \notin DOMAIN inj.before.finish_target_temps)
    => C19_FinishSnapshotRecorded

\* the warm-up trace of PrimeProcessor.get_lines: it begins with the nozzle
\* lowered by 0.2
HasWarmupTrace(b) == \E k \in 1..Len(b.lines) : b.lines[k] = "G0 Z-0.2"

\* the finish snapshot of block prev asks for a pre-ramp of tool
NeedsPreRamp(prev, tool, printing_temps) ==
    \/ tool \notin DOMAIN prev.finish_target_temps
    \/ prev.finish_target_temps[tool] # printing_temps[tool]
    \/ ~prev.finish_reached_target[tool]

PrimeGiven(i) ==
    /\ mb.given[i].state = S_PRIME_BLOCK
    /\ mb.given[i].active_tool \in DOMAIN mb.printing_temps

PreRampAsNeeded(i) ==
    /\ OutPos(mb.given, i) <= Len(mb.output_blocks)
    /\ HasWarmupTrace(mb.output_blocks[OutPos(mb.given, i)])
           <=> NeedsPreRamp(mb.output_blocks[OutPos(mb.given, i) - 1],
                            mb.given[i].active_tool, mb.printing_temps)

\* C20: every PRIME block modify_blocks processes is emitted, with the
\* warm-up trace if and only if the block emitted before it has, for the PRIME
\* block's tool, a finish target other than the printing temperature, a
\* reached flag that is false, or no entry at all.
C20_PreRampIffNotHot ==
    \A i \in 1..Len(mb.given) : PrimeGiven(i) => PreRampAsNeeded(i)

\* the same when the block emitted before has an entry for the tool
C20_PreRampIffNotHotWithEntry ==
    \A i \in 1..Len(mb.given) :
        (/\ PrimeGiven(i)
         /\ \A k \in 1..Len(mb.output_blocks) :
                mb.given[i].active_tool \in DOMAIN mb.output_blocks[k].finish_target_temps)
        => PreRampAsNeeded(i)

\* a temperature command, the tool it addresses given the active tool, its
\* target
IsTempCommand(line) == parse_gcode(Strip(line)).op \in {"M104", "M109"}

ToolAddressed(line, active_tool) ==
    IF "T" \in DOMAIN parse_gcode(Strip(line)).args
    THEN parse_gcode(Strip(line)).args["T"].m
    ELSE active_tool

OthersUnchanged(old, new, tool) ==
    /\ DOMAIN new \ {tool} = DOMAIN old \ {tool}
    /\ \A t \in DOMAIN old \ {tool} : new[t] = old[t]

TempCommandTracked(line, tool) ==
    /\ tool \in DOMAIN bp'.target_temps
    /\ tool \in DOMAIN bp'.reached_target
    /\ bp'.target_temps[tool] = parse_gcode(Strip(line)).args["S"].m
    /\ bp'.reached_target[tool] = (parse_gcode(Strip(line)).op = "M109")
    /\ OthersUnchanged(bp.target_temps, bp'.target_temps, tool)
    /\ OthersUnchanged(bp.reached_target, bp'.reached_target, tool)

\* C21: every temperature command the tracker processes, a zero target
\* included, sets the last target of the addressed tool (explicit T, else the
\* active tool) to its S value and the tool's reached flag to true for M109
\* and false for M104; the entries of every other tool stay as they were.
C21_TempCommandSetsTarget ==
    [][\A line \in LinesOf(scn) :
          (fed' = Append(fed, line) /\ IsTempCommand(line) /\ bp'.error = "none")
              => TempCommandTracked(line, ToolAddressed(line, bp.active_tool))]_vars

C21_Witness ==
    /\ fed = <<"M104 T1 S215", "M109 S0">>
    /\ bp.error = "none"
    /\ bp.active_tool = 0
    /\ bp.target_temps = (0 :> 0) @@ (1 :> 215)
    /\ bp.reached_target = (0 :> TRUE) @@ (1 :> FALSE)

Sealed == Len(bp'.blocks) = Len(bp.blocks) + 1

\* the block sealed by this line holds the tracker's maps as they were after
\* its last line, and the block opened the tracker's tool and height
SealedWithSnapshot ==
    /\ FinishTargetOf(bp'.blocks[Len(bp'.blocks)]) = bp.target_temps
    /\ FinishReachedOf(bp'.blocks[Len(bp'.blocks)]) = bp.reached_target
    /\ bp'.blocks[Len(bp'.blocks)].own_maps
    /\ bp'.current_block.active_tool = bp'.active_tool
    /\ NumEq(bp'.current_block.start_z, bp'.current_z)

\* what later lines leave alone: the sealed blocks, the open block's tool
\* and start height
EarlierBlocksKept ==
    /\ \A k \in 1..Len(bp.blocks) : bp'.blocks[k] = bp.blocks[k]
    /\ ~Sealed => /\ bp'.blocks = bp.blocks
                  /\ bp'.current_block.active_tool = bp.current_block.active_tool
                  /\ bp'.current_block.start_z = bp.current_block.start_z

\* C22: a block is sealed with the tracker's last-target and reached maps as
\* they stand after its last line, a block is opened with the tracker's active
\* tool and current height at its trigger line, and no later line changes any
\* of these values.
C22_SnapshotAtSeal ==
    [][(fed' # fed /\ bp'.error = "none")
          => (EarlierBlocksKept /\ (Sealed => SealedWithSnapshot))]_vars

C22_Witness ==
    /\ fed = <<"M104 S200", ";TYPE:PRIME-TOWER", "M109 T0 S210", "T1">>
    /\ Len(bp.blocks) = 1
    /\ bp.blocks[1].finish_target_temps = (0 :> 200)
    /\ bp.blocks[1].finish_reached_target = (0 :> FALSE)
    /\ bp.target_temps = (0 :> 210) /\ bp.reached_target = (0 :> TRUE)
    /\ bp.active_tool = 1 /\ bp.current_block.active_tool = 0

\* the states the annotation triggers map a line to
TriggerStates(line) ==
    {StateTable[k].state : k \in {j \in 1..Len(StateTable) : Matches(StateTable[j], line)}}

BeginsWithItsTrigger(b) ==
    /\ Len(b.lines) >= 1
    /\ b.state \in TriggerStates(b.lines[1])
    /\ \A k \in 2..Len(b.lines) : TriggerStates(b.lines[k]) = {}

\* C23: in get_blocks() every block but the first begins with a trigger line
\* mapped to the block's state, no other line of any block matches a trigger,
\* and the first block is the only INIT block.
C23_BlocksBeginAtTriggers ==
    bp.error = "none" =>
        /\ get_blocks(bp)[1].state = S_INIT
        /\ \A k \in 1..Len(get_blocks(bp)[1].lines) :
               TriggerStates(get_blocks(bp)[1].lines[k]) = {}
        /\ \A i \in 2..Len(get_blocks(bp)) :
               /\ get_blocks(bp)[i].state # S_INIT
               /\ BeginsWithItsTrigger(get_blocks(bp)[i])

C23_Witness ==
    /\ bp.error = "none"
    /\ Len(get_blocks(bp)) = 3
    /\ get_blocks(bp)[1].lines = <<"M109 S200">>
    /\ get_blocks(bp)[2].state = S_PRIME_BLOCK
    /\ get_blocks(bp)[2].lines = <<";TYPE:PRIME-TOWER", "G1 X1 E1">>
    /\ get_blocks(bp)[3].state = S_END_EXTRUDER
    /\ get_blocks(bp)[3].lines = <<"; EXTRUDER END HOME">>

\* C24: no two adjacent blocks of get_blocks() carry the same state.
C24_AdjacentBlocksDiffer ==
    bp.error = "none" =>
        \A i \in 1..(Len(get_blocks(bp)) - 1) :
            get_blocks(bp)[i].state # get_blocks(bp)[i + 1].state

IsMove(line) == parse_gcode(line).op \in {"G0", "G1"}

FeedOnly(feed) == [k \in {"F"} |-> feed]

\* line out is the G0 / G1 line of the input with its F, when it has one, set
\* to feed, without E, and with Z forced to z_force or, when there is none,
\* without Z
MoveWritten(out, line, feed, z_force) ==
    /\ parse_gcode(out).ok
    /\ parse_gcode(out).op = parse_gcode(line).op
    /\ SameArgs(parse_gcode(out).args,
                EditedArgs(parse_gcode(line).args, FeedOnly(feed),
                           IF z_force.some THEN [k \in {"Z"} |-> z_force.val] ELSE EmptyDict,
                           IF z_force.some THEN {"E"} ELSE {"E", "Z"}))

\* where the output made from input line i begins, fm the first move
WipePos(i, fm) == HeaderLen + i + (IF fm # 0 /\ i > fm THEN 1 ELSE 0)

WipeMoveWritten(i, fm) ==
    IF fm = 0 \/ i < fm
    THEN MoveWritten(pr.lines[WipePos(i, fm)], fed[i], NumMul(pr.feed_override, 15), None)
    ELSE IF i = fm
    THEN /\ MoveWritten(pr.lines[WipePos(i, fm)], fed[i], NumMul(pr.feed_override, 15), None)
         /\ MoveWritten(pr.lines[WipePos(i, fm) + 1], fed[i], pr.feed_override, pr.z_override)
    ELSE MoveWritten(pr.lines[WipePos(i, fm)], fed[i], pr.feed_override, None)

WipeMovesWritten(fm) ==
    /\ Len(pr.lines) = HeaderLen + Len(fed) + (IF fm # 0 THEN 1 ELSE 0)
    /\ \A i \in 1..Len(fed) : IsMove(fed[i]) => WipeMoveWritten(i, fm)

\* C25: the first G0 / G1 input line carrying X or Y gives two consecutive
\* lines, the first without Z at 15 times the feed override, the second with Z
\* forced to the given height at the feed override; each G0 / G1 line before
\* it gives one line at 15 times the feed override without Z, each one after
\* it one line at the feed override.
C25_FirstMoveWrittenTwice == pr.error = "none" => WipeMovesWritten(FirstMove(fed))

\* the same for a replayed block without a G line before its first G0 / G1
C25_WithoutOtherGLines == (scn = "wipe") => C25_FirstMoveWrittenTwice

\* the synthesizer the wipe trace is built with: an idle map, a replayed tool
WipeWithIdle == CHOOSE a \in WipeArgs : a.idle_temps.some

IdleCommand(op, idle_temps, tool) ==
    op \o " T" \o IntToStr(tool) \o " S" \o IntToStr(idle_temps[tool])

WipeOutputFramed(out, idle_temps, tool) ==
    /\ Len(out) >= Cardinality(DOMAIN idle_temps) + 2
    /\ out[1] = ";WIPE-PRIME-TOWER"
    /\ {out[1 + k] : k \in 1..Cardinality(DOMAIN idle_temps)}
           = {IdleCommand("M104", idle_temps, t) : t \in DOMAIN idle_temps}
    /\ {k \in 1..Len(out) : out[k] = IdleCommand("M109", idle_temps, tool)} = {Len(out)}

\* C26: for a replayed block of any length, the wipe trace built with an
\* idle map begins with the banner and one 'M104 T<k> S<idle[k]>' per tool of
\* the map and ends with the only 'M109 T<t> S<idle[t]>' of the replayed tool;
\* the tail discard takes lines made from the replayed block only.
C26_HeaderSurvivesTailDiscard ==
    (pr.error = "none" /\ pr.idle_temps.some) =>
        WipeOutputFramed(PrimeRetraceProcessor_get_lines(pr),
                         WipeWithIdle.idle_temps.val, WipeWithIdle.active_tool)

\* the same once five lines have been made from the replayed block
C26_LongBlockKeepsHeader == (Len(pr.lines) - HeaderLen >= 5) => C26_HeaderSurvivesTailDiscard

\* the lines of the blocks, in order
RECURSIVE FlatLines(_, _)
FlatLines(blocks, n) ==
    IF n = 0 THEN <<>> ELSE FlatLines(blocks, n - 1) \o blocks[n].lines

\* the tracker after the first n lines
TrackerAfter(lines, n) == BlockProcessor_process_lines(BlockProcessor_init, SubSeq(lines, 1, n), 1)

Returned_blocks == mb.pc = "done" /\ mb.error = "none"

ExtrudingBlock(b) == b.state \in {S_PART, S_PRIME_BLOCK} /\ FirstE(b.lines) # 0

\* at the first E-bearing line of output block k, tracker tr has the block's
\* tool at its printing temperature
HotAtFirstE(tr, tool, printing_temps) ==
    /\ tool \in DOMAIN tr.target_temps
    /\ tool \in DOMAIN printing_temps
    /\ tr.target_temps[tool] = printing_temps[tool]

ExtrudesHot(k) ==
    HotAtFirstE(TrackerAfter(FlatLines(mb.output_blocks, Len(mb.output_blocks)),
                             Len(FlatLines(mb.output_blocks, k - 1))
                                 + FirstE(mb.output_blocks[k].lines) - 1),
                mb.output_blocks[k].active_tool, mb.printing_temps)

\* C27: in the output of the whole pipeline, replayed through the
\* Temperature Tracker, the last target commanded for the active tool of every
\* PART or PRIME block is the tool's printing temperature when the block's
\* first E-bearing line is reached.
C27_ExtrudesAtPrintingTemperature ==
    (scn = "pipeline_modify" /\ Returned_blocks) =>
        \A k \in 1..Len(mb.output_blocks) :
            ExtrudingBlock(mb.output_blocks[k]) => ExtrudesHot(k)

\* a fresh Redundancy Filter run over lines
Filtered(lines) ==
    get_lines(TempMinimizeProcessor_process_lines(TempMinimizeProcessor_init, lines, 1))

\* C28: the Redundancy Filter run on its own output returns that output
\* unchanged.
C28_FilterIdempotent == tm.error = "none" => Filtered(get_lines(tm)) = get_lines(tm)

\* the same for inputs without a waiting command
C28_IdempotentWithoutWaits ==
    (\A i \in 1..Len(fed) : parse_gcode(fed[i]).op # "M109") => C28_FilterIdempotent

SameTracking(after_output, after_input) ==
    /\ after_output.error = "none"
    /\ after_output.active_tool = after_input.active_tool
    /\ after_output.target_temps = after_input.target_temps

\* C29: after every prefix of the input, a Temperature Tracker run over the
\* filter's output ends with the active tool and the last-target map of a
\* Temperature Tracker run over the prefix itself.
C29_FilterKeepsTargets ==
    tm.error = "none" =>
        SameTracking(TrackerAfter(get_lines(tm), Len(get_lines(tm))),
                     TrackerAfter(fed, Len(fed)))

C29_Witness ==
    /\ tm.error = "none"
    /\ Len(fed) = 4 /\ Len(get_lines(tm)) = 3
    /\ fed[4] = " M104 S200"
    /\ tm.active_tool = 1
    /\ tm.target_temps = (0 :> 100) @@ (1 :> 200)
    /\ TrackerAfter(get_lines(tm), 3).target_temps = (0 :> 100) @@ (1 :> 200)

\* where the warm-up trace of block b closes: the 'G0 Z0.2' between 'G91'
\* and 'G90' (0 when there is none)
WarmupClose(b) ==
    IF \E k \in 2..(Len(b.lines) - 1) : b.lines[k] = "G0 Z0.2"
    THEN CHOOSE k \in 2..(Len(b.lines) - 1) : b.lines[k] = "G0 Z0.2"
    ELSE 0

\* lines out are: anything without the wait up to the closing 'G91',
\* 'G0 Z0.2', 'G90' at c - 1 .. c + 1, then the original lines with the wait
\* before their first E-bearing line
WaitAfterWarmup(out, c, orig, wait) ==
    /\ c # 0
    /\ out[c - 1] = "G91" /\ out[c + 1] = "G90"
    /\ \A k \in 1..(c + 1) : out[k] # wait
    /\ SubSeq(out, c + 2, Len(out))
           = IF FirstE(orig) = 0 THEN orig ELSE InsertBefore(orig, FirstE(orig), wait)

PrimeWaitPlaced(i) ==
    WaitAfterWarmup(mb.output_blocks[OutPos(mb.given, i)].lines,
                    WarmupClose(mb.output_blocks[OutPos(mb.given, i)]),
                    PrimeProcessor_lines(mb.blocks[i].lines),
                    TempCommand(TRUE, mb.given[i].active_tool,
                                mb.printing_temps[mb.given[i].active_tool]))

\* C30: in every emitted PRIME block with the warm-up trace, the M109 at the
\* printing temperature stands after the trace's closing 'G91', 'G0 Z0.2',
\* 'G90', immediately before the first E-bearing line of the original prime
\* lines, which follow the trace complete and in order.
C30_WaitAfterWarmupTrace ==
    \A i \in 1..Len(mb.given) :
        (/\ mb.given[i].state = S_PRIME_BLOCK
         /\ OutPos(mb.given, i) <= Len(mb.output_blocks)
         /\ HasWarmupTrace(mb.output_blocks[OutPos(mb.given, i)]))
        => PrimeWaitPlaced(i)

\* the same for PRIME blocks whose E-bearing lines are all G0 / G1
C30_WaitAfterWarmupOfMoves ==
    \A i \in 1..Len(mb.given) :
        (/\ mb.given[i].state = S_PRIME_BLOCK
         /\ OutPos(mb.given, i) <= Len(mb.output_blocks)
         /\ HasWarmupTrace(mb.output_blocks[OutPos(mb.given, i)])
         /\ \A k \in 1..Len(mb.given[i].lines) :
                CarriesE(mb.given[i].lines[k]) => IsMove(mb.given[i].lines[k]))
        => PrimeWaitPlaced(i)

\* the call recorded in call, made on its block in a process where no block
\* was given to add_temperatures before
FreshCall(call) ==
    add_temperatures(Defaults_init, call.before, call.wait, call.printing_temps,
                     call.target_temps, call.reached_target)

AsOnFreshBlock(call, dflt, fresh) ==
    /\ call.block.lines = fresh.block.lines
    /\ TargetTemps(dflt, call.block) = TargetTemps(fresh.defaults, fresh.block)
    /\ ReachedTarget(dflt, call.block) = ReachedTarget(fresh.defaults, fresh.block)

\* the finish maps block b holds are the same under both default dicts
KeepsFinishMaps(b, dflt_before, dflt_after) ==
    /\ TargetTemps(dflt_after, b) = TargetTemps(dflt_before, b)
    /\ ReachedTarget(dflt_after, b) = ReachedTarget(dflt_before, b)

AddTemperaturesCalled == inj'.calls = inj.calls + 1 /\ inj'.error = "none"

PerBlock(call_before, call, dflt_before, dflt_after) ==
    /\ call_before.calls > 0 => KeepsFinishMaps(call_before.block, dflt_before, dflt_after)
    /\ AsOnFreshBlock(call, dflt_after, FreshCall(call))

\* C31: a call of add_temperatures on one block leaves the finish maps of the
\* block of the call before as they were, blocks constructed without finish
\* maps included, and its result is the result of the same call on a freshly
\* constructed block with no call before it.
C31_FinishSnapshotsPerBlock ==
    [][AddTemperaturesCalled => PerBlock(inj, inj', Block_defaults, Block_defaults')]_vars

\* the same when the blocks were constructed with finish maps of their own
C31_OwnSnapshotsPerBlock ==
    [][(AddTemperaturesCalled /\ inj.before.own_maps /\ inj'.before.own_maps)
           => PerBlock(inj, inj', Block_defaults, Block_defaults')]_vars

====
